---- MODULE Spec2Model ----
(***************************************************************************)
(* Model of plugins/inventory/cluster.py: the three allocators             *)
(* (NetworkManager, ValueManager, HostTimeAssigner) and the inventory pass *)
(* InventoryModule.parse, which reconciles a cluster configuration with    *)
(* one snapshot of the cloud account and writes the plan to the inventory. *)
(*                                                                         *)
(* Strings that the code takes apart or builds (group names, host names,   *)
(* volume names, sizes such as "20G") are sequences of one-character       *)
(* strings. Times of day are minutes since midnight once parsed, and       *)
(* <<hour, minute>> as text. Addresses are offsets from the network        *)
(* address of the configured block: 0 is the network address and           *)
(* 2^hostbits - 1 the broadcast address.                                   *)
(***************************************************************************)
EXTENDS Integers, Sequences, FiniteSets, TLC

VARIABLES
    config,                      \* self._config (the configuration file)
    cloud,                       \* the account: what the cloud API would answer
    pc,                          \* position of parse()
    err,                         \* the exception that ended the pass, or NoErr
    pass,                        \* number of the pass in the behaviour: 1 for the first parse()
    cloud_calls,                 \* number of calls made to the cloud API
    hcloud_servers,              \* self._hcloud_servers
    hcloud_volumes,              \* self._hcloud_volumes
    servers_configured,          \* self._hetzner_servers_configured
    volumes_configured,          \* self._hetzner_volumes_configured
    time_assigner,               \* self._host_time_assigner
    network_manager,             \* self._network_manager
    location_manager,            \* location_manager of the group being prepared
    cur_group,                   \* index in config.nodes of the group being prepared
    cur_host,                    \* number of the next host of that group
    inventory,                   \* self._inventory: what the sink has received
    draws,                       \* allocator calls made for hosts so far
    first_out,                   \* the first pass's final inventory, pc and err (and its inputs)
    calls                        \* the calls made on an allocator used on its own, with their results

vars == <<config, cloud, pc, err, pass, cloud_calls, hcloud_servers, hcloud_volumes,
          servers_configured, volumes_configured, time_assigner, network_manager,
          location_manager, cur_group, cur_host, inventory, draws, first_out,
                   calls>>

----------------------------------------------------------------------------
(* Bounds of the model *)

\* largest replica count ("num") of a group
MaxNum == 3
\* largest number of servers in the snapshot
MaxServers == 2
\* largest number of volumes in the snapshot
MaxVolumes == 2
\* largest number of calls made on an allocator used on its own
MaxCalls == 4

----------------------------------------------------------------------------
(* Python values *)

\* labels.get(...) / config lookups that find nothing
None == "None"
\* an absent internal_ip label
NoIP == -1
\* an absent "num"
NoNum == -1
\* an absent time string
NoTime == <<>>
\* an absent network.private_cidr
NoNet == -1
\* no exception
NoErr == "NoErr"
\* an absent "locations" key (an empty list is <<>>)
NoLocations == <<"None">>

Range(s) == {s[i] : i \in 1..Len(s)}

RECURSIVE SumSeq(_)
SumSeq(s) == IF s = <<>> THEN 0 ELSE s[1] + SumSeq(Tail(s))

Min(S) == CHOOSE x \in S : \A y \in S : x <= y

RECURSIVE Pow2(_)
Pow2(n) == IF n = 0 THEN 1 ELSE 2 * Pow2(n - 1)

\* str.startswith
StartsWith(s, p) == Len(s) >= Len(p) /\ SubSeq(s, 1, Len(p)) = p

\* str.replace('_', '-')
ReplaceUnderscore(s) == [i \in 1..Len(s) |-> IF s[i] = "_" THEN "-" ELSE s[i]]

DigitChar(d) ==
    CASE d = 0 -> "0" [] d = 1 -> "1" [] d = 2 -> "2" [] d = 3 -> "3" [] d = 4 -> "4"
      [] d = 5 -> "5" [] d = 6 -> "6" [] d = 7 -> "7" [] d = 8 -> "8" [] d = 9 -> "9"

DigitVal(c) ==
    CASE c = "0" -> 0 [] c = "1" -> 1 [] c = "2" -> 2 [] c = "3" -> 3 [] c = "4" -> 4
      [] c = "5" -> 5 [] c = "6" -> 6 [] c = "7" -> 7 [] c = "8" -> 8 [] c = "9" -> 9

\* str(n) for n >= 0
RECURSIVE IntToStr(_)
IntToStr(n) == IF n < 10 THEN <<DigitChar(n)>> ELSE IntToStr(n \div 10) \o <<DigitChar(n % 10)>>

\* int(s) for a string of digits
RECURSIVE StrToInt(_)
StrToInt(s) ==
    IF Len(s) = 1 THEN DigitVal(s[1])
    ELSE 10 * StrToInt(SubSeq(s, 1, Len(s) - 1)) + DigitVal(s[Len(s)])

\* s.rstrip("Gg")
RECURSIVE RStripG(_)
RStripG(s) ==
    IF s # <<>> /\ s[Len(s)] \in {"G", "g"} THEN RStripG(SubSeq(s, 1, Len(s) - 1)) ELSE s

\* int(str(vol_size).rstrip("Gg"))
ConfigGb(vol_size) == StrToInt(RStripG(vol_size))

\* f"{group.replace('_', '-')}-{host}"
Hostname(group, host) == ReplaceUnderscore(group) \o <<"-">> \o IntToStr(host)

\* f"{hostname}_{vol_name}"
ExpectedVolumeName(hostname, vol_name) == hostname \o <<"_">> \o vol_name

\* datetime.strptime(s, "%H:%M"), as minutes since midnight
ParseTime(s) == s[1] * 60 + s[2]

\* slot.strftime("%H:%M")
FormatTime(t) == <<(t \div 60) % 24, t % 60>>

----------------------------------------------------------------------------
(* NetworkManager *)

\* every address of the block, the network and broadcast address too
NetworkHostsAll(hostbits) == 0..(Pow2(hostbits) - 1)

\* self._network.hosts(): every address but the network and broadcast address
NetworkHosts(hostbits) == 1..(Pow2(hostbits) - 2)

\* a manager built once and kept for later passes
NetworkManagerKept(hostbits) ==
    IF network_manager.hostbits # 0 THEN network_manager
    ELSE [hostbits |-> hostbits, assigned |-> {}, pos |-> 0]

\* NetworkManager.__init__; pos is how far self._ip_iter has walked hosts()
NetworkManagerNew(hostbits) == [hostbits |-> hostbits, assigned |-> {}, pos |-> 0]

\* the generator yields every address behind pos, assigned or not
GetNextIpNoSkip(nm) ==
    LET free == {ip \in NetworkHosts(nm.hostbits) : ip > nm.pos}
    IN  IF free = {}
        THEN [ok |-> FALSE, ip |-> NoIP,
              nm |-> [nm EXCEPT !.pos = Pow2(nm.hostbits) - 2]]
        ELSE [ok |-> TRUE, ip |-> Min(free),
              nm |-> [nm EXCEPT !.assigned = @ \cup {Min(free)}, !.pos = Min(free)]]

\* get_next_ip: the generator resumes behind pos and skips assigned addresses
GetNextIp(nm) ==
    LET free == {ip \in NetworkHosts(nm.hostbits) : ip > nm.pos /\ ip \notin nm.assigned}
    IN  IF free = {}
        THEN [ok |-> FALSE, ip |-> NoIP,
              nm |-> [nm EXCEPT !.pos = Pow2(nm.hostbits) - 2]]
        ELSE [ok |-> TRUE, ip |-> Min(free),
              nm |-> [nm EXCEPT !.assigned = @ \cup {Min(free)}, !.pos = Min(free)]]

\* the address not looked up in hosts()
ReserveIpAnywhere(nm, ip) ==
    IF ip \in nm.assigned THEN [ok |-> FALSE, nm |-> nm]
    ELSE [ok |-> TRUE, nm |-> [nm EXCEPT !.assigned = @ \cup {ip}]]

\* reserve_ip: ValueError for an address outside hosts() or already assigned
ReserveIp(nm, ip) ==
    IF ip \notin NetworkHosts(nm.hostbits) THEN [ok |-> FALSE, nm |-> nm]
    ELSE IF ip \in nm.assigned THEN [ok |-> FALSE, nm |-> nm]
    ELSE [ok |-> TRUE, nm |-> [nm EXCEPT !.assigned = @ \cup {ip}]]

----------------------------------------------------------------------------
(* ValueManager *)

\* ValueManager.__init__: Counter({value: 0 for value in values})
ValueManagerNew(values) == [values |-> values, counts |-> [v \in Range(values) |-> 0]]

\* position of the first occurrence of v in values: the Counter's insertion order
FirstIndex(values, v) == Min({i \in 1..Len(values) : values[i] = v})

\* among the least used values the last one declared
GetNextLastTie(vm) ==
    IF vm.values = <<>> THEN [ok |-> FALSE, value |-> None, vm |-> vm]
    ELSE LET least == Min({vm.counts[v] : v \in DOMAIN vm.counts})
             ties == {FirstIndex(vm.values, v) : v \in {w \in DOMAIN vm.counts : vm.counts[w] = least}}
             i == CHOOSE m \in ties : \A n \in ties : n <= m
             v == vm.values[i]
         IN  [ok |-> TRUE, value |-> v, vm |-> [vm EXCEPT !.counts[v] = @ + 1]]

\* the most used value, not the least used
GetNextMost(vm) ==
    IF vm.values = <<>> THEN [ok |-> FALSE, value |-> None, vm |-> vm]
    ELSE LET most == CHOOSE c \in {vm.counts[v] : v \in DOMAIN vm.counts} :
                         \A d \in {vm.counts[v] : v \in DOMAIN vm.counts} : d <= c
             i == Min({FirstIndex(vm.values, v) : v \in {w \in DOMAIN vm.counts : vm.counts[w] = most}})
             v == vm.values[i]
         IN  [ok |-> TRUE, value |-> v, vm |-> [vm EXCEPT !.counts[v] = @ + 1]]

\* get_next: min(self._counts.items(), key=count) is the first minimal item in
\* insertion order; ValueError on an empty Counter
GetNext(vm) ==
    IF vm.values = <<>> THEN [ok |-> FALSE, value |-> None, vm |-> vm]
    ELSE LET least == Min({vm.counts[v] : v \in DOMAIN vm.counts})
             i == Min({FirstIndex(vm.values, v) : v \in {w \in DOMAIN vm.counts : vm.counts[w] = least}})
             v == vm.values[i]
         IN  [ok |-> TRUE, value |-> v, vm |-> [vm EXCEPT !.counts[v] = @ + 1]]

\* the item not looked up in self._values
IncrementAnything(vm, item) ==
    [ok |-> TRUE,
     vm |-> [vm EXCEPT !.counts = [v \in DOMAIN vm.counts \cup {item} |->
                                     IF v = item
                                     THEN (IF v \in DOMAIN vm.counts THEN vm.counts[v] ELSE 0) + 1
                                     ELSE vm.counts[v]]]]

\* increment: ValueError for an item that is not in self._values
Increment(vm, item) ==
    IF item \notin Range(vm.values) THEN [ok |-> FALSE, vm |-> vm]
    ELSE [ok |-> TRUE, vm |-> [vm EXCEPT !.counts[item] = @ + 1]]

----------------------------------------------------------------------------
(* HostTimeAssigner *)

\* strptime(s, "%H:%M") accepts s
ValidTime(s) == Len(s) = 2 /\ s[1] \in 0..23 /\ s[2] \in 0..59

\* a group keeps its turn until its count is used up
RECURSIVE InterleaveRunWhole(_, _, _, _)
InterleaveRunWhole(keys, counts, alive, result) ==
    IF keys = <<>> THEN [counts |-> counts, alive |-> alive, result |-> result]
    ELSE LET g == keys[1]
             c == counts[g] - 1
         IN  InterleaveRunWhole(IF c > 0 THEN keys ELSE Tail(keys), [counts EXCEPT ![g] = c],
                                IF c <= 0 THEN alive \ {g} ELSE alive, Append(result, g))

\* One run of "for group in list(group_counts.keys())": keys is the list taken
\* at the start of the run, counts the dict (deleted keys are left out of alive)
RECURSIVE InterleaveRun(_, _, _, _)
InterleaveRun(keys, counts, alive, result) ==
    IF keys = <<>> THEN [counts |-> counts, alive |-> alive, result |-> result]
    ELSE LET g == keys[1]
             c == counts[g] - 1
         IN  InterleaveRun(Tail(keys), [counts EXCEPT ![g] = c],
                           IF c = 0 THEN alive \ {g} ELSE alive, Append(result, g))

\* "while group_counts": runs until the dict is empty. A count that starts at 0
\* or below is decremented away from 0 and its key is never deleted, so the
\* loop does not end; every terminating walk appends exactly the sum of the
\* counts, hence a result longer than limit shows the loop has no end.
RECURSIVE InterleaveLoop(_, _, _, _, _)
InterleaveLoop(order, counts, alive, result, limit) ==
    IF alive = {} THEN [ends |-> TRUE, result |-> result]
    ELSE IF Len(result) > limit THEN [ends |-> FALSE, result |-> result]
    ELSE LET keys == SelectSeq(order, LAMBDA g : g \in alive)
             r == InterleaveRun(keys, counts, alive, result)
         IN  InterleaveLoop(order, r.counts, r.alive, r.result, limit)

\* _interleave_groups(groups.copy()); order is the dict's key order
InterleaveGroups(order, counts) ==
    InterleaveLoop(order, counts, Range(order), <<>>,
                   SumSeq([i \in 1..Len(order) |->
                               IF counts[order[i]] > 0 THEN counts[order[i]] ELSE 0]))

\* the window check off by one
WindowTooShortByTwo(total_hosts, total_minutes) == total_hosts > total_minutes + 1

\* "if self._total_hosts > total_minutes: raise"
WindowTooShort(total_hosts, total_minutes) == total_hosts > total_minutes

\* the window divided by the number of hosts, not by the number of gaps
AllSlotsStepByHosts(start, total_minutes, total_hosts) ==
    IF total_hosts <= 1 THEN <<start>>
    ELSE LET step == total_minutes \div total_hosts
         IN  [i \in 1..total_hosts |-> start + (i - 1) * step]

\* the all_slots list of __init__
AllSlots(start, total_minutes, total_hosts) ==
    IF total_hosts <= 1 THEN <<start>>
    ELSE LET step == total_minutes \div (total_hosts - 1)
         IN  [i \in 1..total_hosts |-> start + (i - 1) * step]

\* for slot, group in zip(all_slots, round_robin): self._group_slots[group].append(slot)
RECURSIVE ZipSlots(_, _, _)
ZipSlots(all_slots, round_robin, g) ==
    IF all_slots = <<>> \/ round_robin = <<>> THEN <<>>
    ELSE (IF round_robin[1] = g THEN <<all_slots[1]>> ELSE <<>>)
         \o ZipSlots(Tail(all_slots), Tail(round_robin), g)

\* HostTimeAssigner.__init__: order and counts are the groups dict.
\* status is "ok", "error" (ValueError) or "hang" (_interleave_groups never returns)
HostTimeAssignerNew(order, counts, start_time_str, end_time_str) ==
    LET failed(s) == [status |-> s, group_slots |-> <<>>, group_slot_index |-> <<>>]
    IN  IF ~ValidTime(start_time_str) \/ ~ValidTime(end_time_str) THEN failed("error")
        ELSE LET start == ParseTime(start_time_str)
                 end == ParseTime(end_time_str)
                 total_hosts == SumSeq([i \in 1..Len(order) |-> counts[order[i]]])
                 total_minutes == end - start
             IN  IF end <= start THEN failed("error")
                 ELSE IF total_hosts = 0 THEN failed("error")
                 ELSE IF WindowTooShort(total_hosts, total_minutes) THEN failed("error")
                 ELSE LET all_slots == AllSlots(start, total_minutes, total_hosts)
                          rr == InterleaveGroups(order, counts)
                      IN  IF ~rr.ends THEN failed("hang")
                          ELSE [status |-> "ok",
                                group_slots |-> [g \in Range(order) |->
                                                    ZipSlots(all_slots, rr.result, g)],
                                group_slot_index |-> [g \in Range(order) |-> 0]]

\* the index of the group left where it was
GetNextSlotStuck(hta, group_name) ==
    IF group_name \notin DOMAIN hta.group_slots THEN [ok |-> FALSE, slot |-> NoTime, hta |-> hta]
    ELSE LET idx == hta.group_slot_index[group_name]
         IN  IF idx >= Len(hta.group_slots[group_name])
             THEN [ok |-> FALSE, slot |-> NoTime, hta |-> hta]
             ELSE [ok |-> TRUE,
                   slot |-> FormatTime(hta.group_slots[group_name][idx + 1]),
                   hta |-> hta]

\* get_next_slot: ValueError for an unknown group or a used-up list
GetNextSlot(hta, group_name) ==
    IF group_name \notin DOMAIN hta.group_slots THEN [ok |-> FALSE, slot |-> NoTime, hta |-> hta]
    ELSE LET idx == hta.group_slot_index[group_name]
         IN  IF idx >= Len(hta.group_slots[group_name])
             THEN [ok |-> FALSE, slot |-> NoTime, hta |-> hta]
             ELSE [ok |-> TRUE,
                   slot |-> FormatTime(hta.group_slots[group_name][idx + 1]),
                   hta |-> [hta EXCEPT !.group_slot_index[group_name] = @ + 1]]

\* the slots not yet handed out, not the whole list
GetAllSlotsRemaining(hta, group_name) ==
    IF group_name \notin DOMAIN hta.group_slots THEN [ok |-> FALSE, slots |-> <<>>]
    ELSE [ok |-> TRUE,
          slots |-> [i \in 1..(Len(hta.group_slots[group_name]) - hta.group_slot_index[group_name]) |->
                        FormatTime(hta.group_slots[group_name][i + hta.group_slot_index[group_name]])]]

\* get_all_slots: ValueError for an unknown group
GetAllSlots(hta, group_name) ==
    IF group_name \notin DOMAIN hta.group_slots THEN [ok |-> FALSE, slots |-> <<>>]
    ELSE [ok |-> TRUE,
          slots |-> [i \in 1..Len(hta.group_slots[group_name]) |->
                        FormatTime(hta.group_slots[group_name][i])]]

----------------------------------------------------------------------------
(* InventoryModule: configuration and cloud data *)

\* the three fallbacks of _get_config: image, locations, network.private_cidr
DefaultImage == "debian-12"
DefaultLocations == <<"fsn1", "nbg1", "hel1">>
\* host bits of "10.0.0.0/24"
DefaultHostBits == 8

\* _get_group_config(group, "image", "debian-12")
GroupImage(g) == IF g.image = None THEN DefaultImage ELSE g.image

\* _get_group_config(group, "locations", ["fsn1", "nbg1", "hel1"])
GroupLocations(g) == IF g.locations = NoLocations THEN DefaultLocations ELSE g.locations

\* _get_group_config(group, "num", 0)
GroupNum(g) == IF g.num = NoNum THEN 0 ELSE g.num

\* _get_config("network.private_cidr", "10.0.0.0/24")
PrivateHostBits(cfg) == IF cfg.private_cidr = NoNet THEN DefaultHostBits ELSE cfg.private_cidr

\* no server: what _search_fitting_server returns when nothing fits
NoServer == [id |-> 0]

\* _get_current_ip: the primary IPv4 address, else the first address of the
\* IPv6 network; "none" stands for the AnsibleError
CurrentIp(server) ==
    IF server.net = "v4" THEN [ok |-> TRUE, kind |-> "v4", server |-> server.id]
    ELSE IF server.net = "v6" THEN [ok |-> TRUE, kind |-> "v6", server |-> server.id]
    ELSE [ok |-> FALSE, kind |-> "none", server |-> server.id]

\* the value of a host variable that was never set
Unset == [ok |-> FALSE, kind |-> "unset", server |-> 0]

\* the first volume of hvs named name ("for hv in ...: if hv.name == expected_name: break")
RECURSIVE FirstVolume(_, _)
FirstVolume(hvs, name) ==
    IF hvs = <<>> THEN [id |-> 0]
    ELSE IF hvs[1].name = name THEN hvs[1]
    ELSE FirstVolume(Tail(hvs), name)

----------------------------------------------------------------------------
(* InventoryModule._validate_config_structure *)

\* the loop over the groups: the first error, or the flags and the control count
RECURSIVE StructureLoop(_, _, _, _)
StructureLoop(nodes, has_control, has_worker, control_count) ==
    IF nodes = <<>>
    THEN [err |-> NoErr, has_control |-> has_control, has_worker |-> has_worker,
          control_count |-> control_count]
    ELSE LET g == nodes[1]
             failed(e) == [err |-> e, has_control |-> has_control,
                           has_worker |-> has_worker, control_count |-> control_count]
         IN  IF ~(g.is_control \/ g.is_worker) THEN failed("group without role")
             ELSE IF g.type = None THEN failed("group without type")
             ELSE IF g.num = NoNum THEN failed("group without num")
             ELSE StructureLoop(Tail(nodes), has_control \/ g.is_control,
                                has_worker \/ g.is_worker,
                                IF g.is_control THEN control_count + g.num
                                                ELSE control_count)

\* the loop over the volumes section
RECURSIVE VolumesLoop(_)
VolumesLoop(volumes) ==
    IF volumes = <<>> THEN NoErr
    ELSE IF ~volumes[1].is_dict THEN "volume not a dictionary"
    ELSE IF volumes[1].name = <<>> THEN "volume without name"
    ELSE IF volumes[1].size = <<>> THEN "volume without size"
    ELSE VolumesLoop(Tail(volumes))

\* the etcd rule: "if control_count == 2: raise"
\* every even count turned away
ControlCountRejectedEven(control_count) == control_count % 2 = 0

ControlCountRejected(control_count) == control_count = 2

\* _validate_config_structure: NoErr, or the AnsibleError raised
ValidateConfigStructure(cfg) ==
    IF cfg.nodes = <<>> THEN "nodes empty"
    ELSE IF ~cfg.token THEN "token missing"
    ELSE IF cfg.start_time = NoTime \/ cfg.end_time = NoTime THEN "times missing"
    ELSE LET r == StructureLoop(cfg.nodes, FALSE, FALSE, 0)
         IN  IF r.err # NoErr THEN r.err
             ELSE IF ~r.has_control THEN "no control group"
             ELSE IF ~r.has_worker THEN "no worker group"
             ELSE IF ControlCountRejected(r.control_count) THEN "two control nodes"
             ELSE VolumesLoop(cfg.volumes)

----------------------------------------------------------------------------
(* InventoryModule._validate_config_logic *)

\* the comparison turned round: rejects growth and lets a shrink pass
ShrinkRequestedReversed(vol_size, matched) == ConfigGb(vol_size) > matched.size

\* "if config_gb < matched.size: raise": the volume found for the name would shrink
ShrinkRequested(vol_size, matched) == ConfigGb(vol_size) < matched.size

\* _validate_config_logic raises: some storage group, host and volume has a
\* first volume of the expected name that would have to shrink
ValidateConfigLogicFails(cfg, hvs) ==
    \E gi \in 1..Len(cfg.nodes) :
        /\ cfg.nodes[gi].storage
        /\ \E host \in 1..GroupNum(cfg.nodes[gi]) : \E vi \in 1..Len(cfg.volumes) :
              LET matched == FirstVolume(hvs, ExpectedVolumeName(
                                 Hostname(cfg.nodes[gi].name, host), cfg.volumes[vi].name))
              IN  matched.id # 0 /\ ShrinkRequested(cfg.volumes[vi].size, matched)

----------------------------------------------------------------------------
(* InventoryModule._search_fitting_server *)

\* the internal_ip label not asked for
FitsWithoutAddress(server, server_type, image, is_control, is_worker) ==
    /\ server.image = image
    /\ server.server_type = server_type
    /\ ~(server.is_control = "true" /\ ~is_control)
    /\ ~(server.is_worker = "true" /\ ~is_worker)

\* the condition of lines 638-645 on one server whose name equals the host name
Fits(server, server_type, image, is_control, is_worker) ==
    LET is_delete_control == server.is_control = "true" /\ ~is_control
        is_delete_worker == server.is_worker = "true" /\ ~is_worker
    IN  /\ server.image = image
        /\ server.server_type = server_type
        /\ ~is_delete_control
        /\ ~is_delete_worker
        /\ server.internal_ip # NoIP

\* the first server in list order that has the name and fits, or NoServer
RECURSIVE SearchFittingServer(_, _, _, _, _, _)
SearchFittingServer(servers, name, server_type, image, is_control, is_worker) ==
    IF servers = <<>> THEN NoServer
    ELSE IF servers[1].name = name /\ Fits(servers[1], server_type, image, is_control, is_worker)
    THEN servers[1]
    ELSE SearchFittingServer(Tail(servers), name, server_type, image, is_control, is_worker)

----------------------------------------------------------------------------
(* InventoryModule: the inventory pass *)

\* an InventoryData that has received nothing
EmptyInventory ==
    [base_groups |-> <<>>, groups |-> <<>>, hosts |-> <<>>, unmanaged |-> <<>>,
     orphan_volumes |-> <<>>, ansible_user |-> None]

\* attributes declared in __init__ and not yet assigned
NoTimeAssigner == [status |-> "unset", group_slots |-> <<>>, group_slot_index |-> <<>>]
NoNetworkManager == [hostbits |-> 0, assigned |-> {}, pos |-> 0]
NoLocationManager == [values |-> <<>>, counts |-> <<>>]

\* the pass ends with an exception
Fail(e) == pc' = "failed" /\ err' = e

\* the base groups registered before logic validation
NextPhaseGroupsFirst(p) ==
    CASE p = "validate_structure" -> "load"
      [] p = "load" -> "base_groups"
      [] p = "base_groups" -> "validate_logic"
      [] p = "validate_logic" -> "time_assigner"
      [] p = "time_assigner" -> "network_manager"
      [] p = "network_manager" -> "prepare_group"
      [] p = "orphans" -> "clean"
      [] p = "clean" -> "set_user"
      [] p = "set_user" -> "done"

\* logic validation left out of parse
NextPhaseNoLogic(p) ==
    CASE p = "validate_structure" -> "load"
      [] p = "load" -> "base_groups"
      [] p = "validate_logic" -> "base_groups"
      [] p = "base_groups" -> "time_assigner"
      [] p = "time_assigner" -> "network_manager"
      [] p = "network_manager" -> "prepare_group"
      [] p = "orphans" -> "clean"
      [] p = "clean" -> "set_user"
      [] p = "set_user" -> "done"

\* the order of the calls in parse (lines 598-607) and in _initialize_inventory
\* (lines 739-771): the step that follows step p
NextPhase(p) ==
    CASE p = "validate_structure" -> "load"
      [] p = "load" -> "validate_logic"
      [] p = "validate_logic" -> "base_groups"
      [] p = "base_groups" -> "time_assigner"
      [] p = "time_assigner" -> "network_manager"
      [] p = "network_manager" -> "prepare_group"
      [] p = "orphans" -> "clean"
      [] p = "clean" -> "set_user"
      [] p = "set_user" -> "done"

\* parse, line 598
ValidateStructure ==
    /\ pc = "validate_structure"
    /\ LET e == ValidateConfigStructure(config)
       IN  IF e = NoErr THEN pc' = NextPhase(pc) /\ err' = err ELSE Fail(e)
    /\ UNCHANGED <<config, cloud, pass, cloud_calls, hcloud_servers, hcloud_volumes,
                   servers_configured, volumes_configured, time_assigner, network_manager,
                   location_manager, cur_group, cur_host, inventory, draws, first_out,
                   calls>>

\* _load_hcloud_data
LoadHcloudData ==
    /\ pc = "load"
    /\ IF ~config.token THEN Fail("token missing") /\ UNCHANGED <<cloud_calls, hcloud_servers, hcloud_volumes>>
       ELSE /\ cloud_calls' = cloud_calls + 1
            /\ IF cloud.api_ok
               THEN /\ hcloud_servers' = cloud.servers
                    /\ hcloud_volumes' = cloud.volumes
                    /\ pc' = NextPhase(pc) /\ err' = err
               ELSE Fail("cloud API error") /\ UNCHANGED <<hcloud_servers, hcloud_volumes>>
    /\ UNCHANGED <<config, cloud, pass, servers_configured, volumes_configured,
                   time_assigner, network_manager, location_manager, cur_group, cur_host,
                   inventory, draws, first_out,
                   calls>>

\* parse, line 602
ValidateLogic ==
    /\ pc = "validate_logic"
    /\ IF ValidateConfigLogicFails(config, hcloud_volumes)
       THEN Fail("volume shrinking")
       ELSE pc' = NextPhase(pc) /\ err' = err
    /\ UNCHANGED <<config, cloud, pass, cloud_calls, hcloud_servers, hcloud_volumes,
                   servers_configured, volumes_configured, time_assigner, network_manager,
                   location_manager, cur_group, cur_host, inventory, draws, first_out,
                   calls>>

\* _initialize_inventory, lines 739-742
AddBaseGroups ==
    /\ pc = "base_groups"
    /\ inventory' = [inventory EXCEPT
                        !.base_groups = @ \o <<"controlplane", "worker", "managed", "unmanaged">>]
    /\ pc' = NextPhase(pc)
    /\ UNCHANGED <<config, cloud, err, pass, cloud_calls, hcloud_servers, hcloud_volumes,
                   servers_configured, volumes_configured, time_assigner, network_manager,
                   location_manager, cur_group, cur_host, draws, first_out,
                   calls>>

\* the groups dict of _init_host_time_assigner
GroupOrder(cfg) == [i \in 1..Len(cfg.nodes) |-> cfg.nodes[i].name]
GroupCounts(cfg) ==
    [n \in Range(GroupOrder(cfg)) |->
        GroupNum(cfg.nodes[CHOOSE i \in 1..Len(cfg.nodes) : cfg.nodes[i].name = n])]

\* _init_host_time_assigner
InitHostTimeAssigner ==
    /\ pc = "time_assigner"
    /\ LET hta == HostTimeAssignerNew(GroupOrder(config), GroupCounts(config),
                                      config.start_time, config.end_time)
       IN  IF hta.status = "ok"
           THEN time_assigner' = hta /\ pc' = NextPhase(pc) /\ err' = err
           ELSE IF hta.status = "hang"
           THEN pc' = "hung" /\ UNCHANGED <<time_assigner, err>>
           ELSE Fail("time window") /\ UNCHANGED time_assigner
    /\ UNCHANGED <<config, cloud, pass, cloud_calls, hcloud_servers, hcloud_volumes,
                   servers_configured, volumes_configured, network_manager,
                   location_manager, cur_group, cur_host, inventory, draws, first_out,
                   calls>>

\* no address of an existing server is reserved
ReserveExistingSkipped(nm, servers) == [ok |-> TRUE, nm |-> nm]

\* lines 751-758: reserve_ip for every server with an internal_ip label, up to
\* the first ValueError
RECURSIVE ReserveExisting(_, _)
ReserveExisting(nm, servers) ==
    IF servers = <<>> THEN [ok |-> TRUE, nm |-> nm]
    ELSE IF servers[1].internal_ip = NoIP THEN ReserveExisting(nm, Tail(servers))
    ELSE LET r == ReserveIp(nm, servers[1].internal_ip)
         IN  IF r.ok THEN ReserveExisting(r.nm, Tail(servers)) ELSE r

\* _initialize_inventory, lines 748-758
InitNetworkManager ==
    /\ pc = "network_manager"
    /\ LET r == ReserveExisting(NetworkManagerNew(PrivateHostBits(config)), hcloud_servers)
       IN  /\ network_manager' = r.nm
           /\ IF r.ok THEN pc' = NextPhase(pc) /\ err' = err
              ELSE Fail("reserve internal_ip")
    /\ cur_group' = 1
    /\ UNCHANGED <<config, cloud, pass, cloud_calls, hcloud_servers, hcloud_volumes,
                   servers_configured, volumes_configured, time_assigner,
                   location_manager, cur_host, inventory, draws, first_out,
                   calls>>

\* where the loop of line 761 goes once group gi is done
AfterGroup(gi) == IF gi < Len(config.nodes) THEN "prepare_group" ELSE "orphans"

\* _prepare_group up to the loop over the hosts
PrepareGroup ==
    /\ pc = "prepare_group"
    /\ LET g == config.nodes[cur_group]
       IN  /\ inventory' = [inventory EXCEPT !.groups = Append(@,
                  [name |-> g.name, is_control |-> g.is_control, is_worker |-> g.is_worker,
                   type |-> g.type, image |-> GroupImage(g)])]
           /\ location_manager' = ValueManagerNew(GroupLocations(g))
           /\ IF GroupNum(g) >= 1
              THEN pc' = "add_host" /\ cur_host' = 1 /\ cur_group' = cur_group
              ELSE pc' = AfterGroup(cur_group) /\ cur_host' = cur_host
                   /\ cur_group' = cur_group + 1
    /\ UNCHANGED <<config, cloud, err, pass, cloud_calls, hcloud_servers, hcloud_volumes,
                   servers_configured, volumes_configured, time_assigner, network_manager,
                   draws, first_out,
                   calls>>

\* the recorded location taken as it is, known to the group or not
HostLocationUnchecked(found, vm) ==
    IF found.id # 0
    THEN [ok |-> TRUE, value |-> found.location, vm |-> vm]
    ELSE GetNext(vm)

\* _add_host, lines 872-878: the location of the host
HostLocation(found, vm) ==
    IF found.id # 0
    THEN LET r == Increment(vm, found.location)
         IN  [ok |-> r.ok, value |-> found.location, vm |-> r.vm]
    ELSE GetNext(vm)

\* the ValueError of reserve_ip not caught
HostInternalIpStrict(found, nm) ==
    IF found.id # 0
    THEN LET r == ReserveIp(nm, found.internal_ip)
         IN  [ok |-> r.ok, ip |-> found.internal_ip, nm |-> r.nm]
    ELSE GetNextIp(nm)

\* the address drawn from the manager for a found server too
HostInternalIpDrawn(found, nm) == GetNextIp(nm)

\* _add_host, lines 880-889: the internal_ip of the host; the ValueError of
\* reserve_ip is caught and ignored
HostInternalIp(found, nm) ==
    IF found.id # 0
    THEN [ok |-> TRUE, ip |-> found.internal_ip, nm |-> ReserveIp(nm, found.internal_ip).nm]
    ELSE GetNextIp(nm)

\* _add_host, line 874: the ids claimed so far
Claim(configured, found) ==
    IF found.id # 0 THEN Append(configured, found.id) ELSE configured

\* the observed size compared with the configured text: never equal
VolumeEntryRawSize(v, matched) ==
    [name |-> v.name, size |-> v.size, id |-> matched.id,
     needs_create |-> matched.id = 0,
     needs_resize |-> matched.id # 0]

\* _add_host, lines 926-939: the entry of one configured volume
VolumeEntry(v, matched) ==
    [name |-> v.name, size |-> v.size, id |-> matched.id,
     needs_create |-> matched.id = 0,
     needs_resize |-> matched.id # 0 /\ matched.size # ConfigGb(v.size)]

\* _add_host, lines 913-939: host_volumes
HostVolumes(hostname, config_volumes, hvs) ==
    [i \in 1..Len(config_volumes) |->
        VolumeEntry(config_volumes[i],
                    FirstVolume(hvs, ExpectedVolumeName(hostname, config_volumes[i].name)))]

\* the declared names recorded, not the composed ones
HostVolumeNamesBare(hostname, config_volumes) ==
    [i \in 1..Len(config_volumes) |-> config_volumes[i].name]

\* _add_host, line 925: the names appended to _hetzner_volumes_configured
HostVolumeNames(hostname, config_volumes) ==
    [i \in 1..Len(config_volumes) |-> ExpectedVolumeName(hostname, config_volumes[i].name)]

\* where _prepare_group's loop goes after host number host of group gi
AfterHost(gi, host) ==
    IF host < GroupNum(config.nodes[gi]) THEN "add_host" ELSE AfterGroup(gi)

\* _add_host for host cur_host of group cur_group. The host's record in the
\* inventory holds what was set before an exception, if one ends the call.
AddHost ==
    /\ pc = "add_host"
    /\ LET g == config.nodes[cur_group]
           hostname == Hostname(g.name, cur_host)
           found == SearchFittingServer(hcloud_servers, hostname, g.type, GroupImage(g),
                                        g.is_control, g.is_worker)
           loc == HostLocation(found, location_manager)
           ipr == HostInternalIp(found, network_manager)
           slot == GetNextSlot(time_assigner, g.name)
           reach == IF found.id # 0 THEN CurrentIp(found) ELSE Unset
           written == loc.ok /\ ipr.ok
           done == written /\ slot.ok /\ (found.id # 0 => reach.ok)
           record == [hostname |-> hostname, group |-> g.name,
                      create |-> found.id = 0,
                      location |-> loc.value,
                      internal_ip |-> ipr.ip,
                      upgrade_time |-> slot.slot,
                      ansible_host |-> IF slot.ok /\ reach.ok THEN reach ELSE Unset,
                      controlplane |-> done /\ g.is_control,
                      worker |-> done /\ g.is_worker,
                      managed |-> done,
                      has_volumes |-> done /\ g.storage,
                      cluster_volumes |-> IF done /\ g.storage
                                          THEN HostVolumes(hostname, config.volumes, hcloud_volumes)
                                          ELSE <<>>]
       IN  /\ servers_configured' = Claim(servers_configured, found)
           /\ location_manager' = loc.vm
           /\ network_manager' = IF loc.ok THEN ipr.nm ELSE network_manager
           /\ time_assigner' = IF written THEN slot.hta ELSE time_assigner
           /\ inventory' = IF written THEN [inventory EXCEPT !.hosts = Append(@, record)]
                           ELSE inventory
           /\ volumes_configured' =
                  IF done /\ g.storage
                  THEN volumes_configured \o HostVolumeNames(hostname, config.volumes)
                  ELSE volumes_configured
           /\ draws' = Append(draws,
                  [hostname |-> hostname, group |-> g.name, host |-> cur_host,
                   found |-> found.id,
                   location |-> found.id = 0 /\ loc.ok,
                   ip |-> found.id = 0 /\ written,
                   slot |-> written /\ slot.ok])
           /\ IF ~loc.ok THEN Fail("location") /\ UNCHANGED <<cur_group, cur_host>>
              ELSE IF ~ipr.ok THEN Fail("no addresses left") /\ UNCHANGED <<cur_group, cur_host>>
              ELSE IF ~slot.ok THEN Fail("no slots left") /\ UNCHANGED <<cur_group, cur_host>>
              ELSE IF ~done THEN Fail("server without network") /\ UNCHANGED <<cur_group, cur_host>>
              ELSE /\ pc' = AfterHost(cur_group, cur_host)
                   /\ err' = err
                   /\ cur_host' = IF cur_host < GroupNum(g) THEN cur_host + 1 ELSE cur_host
                   /\ cur_group' = IF cur_host < GroupNum(g) THEN cur_group ELSE cur_group + 1
    /\ UNCHANGED <<config, cloud, pass, cloud_calls, hcloud_servers, hcloud_volumes, first_out,
                   calls>>

\* _set_orphan_volumes_for_cleanup: orphan_vols
RECURSIVE OrphanVolumes(_, _)
OrphanVolumes(hvs, managed_set) ==
    IF hvs = <<>> THEN <<>>
    ELSE (IF hvs[1].name \notin managed_set THEN <<hvs[1]>> ELSE <<>>)
         \o OrphanVolumes(Tail(hvs), managed_set)

\* _set_orphan_volumes_for_cleanup; the variable is set only for a non-empty list
SetOrphanVolumes ==
    /\ pc = "orphans"
    /\ inventory' = [inventory EXCEPT
                        !.orphan_volumes = OrphanVolumes(hcloud_volumes, Range(volumes_configured))]
    /\ pc' = NextPhase(pc)
    /\ UNCHANGED <<config, cloud, err, pass, cloud_calls, hcloud_servers, hcloud_volumes,
                   servers_configured, volumes_configured, time_assigner, network_manager,
                   location_manager, cur_group, cur_host, draws, first_out,
                   calls>>

\* the marker of _clean_hetzner_server
RemovePrefix == <<"r", "e", "m", "o", "v", "e", "-">>

\* _clean_hetzner_server, line 805
NewName(name) == IF ~StartsWith(name, RemovePrefix) THEN RemovePrefix \o name ELSE name

\* _clean_hetzner_server, line 803
IsUnmanaged(server, configured) == server.id \notin Range(configured)

\* _clean_hetzner_server: the hosts added to "unmanaged", up to the first
\* server without a network, whose host is added without ansible_host
RECURSIVE CleanLoop(_, _, _)
CleanLoop(servers, configured, out) ==
    IF servers = <<>> THEN [ok |-> TRUE, unmanaged |-> out]
    ELSE IF ~IsUnmanaged(servers[1], configured) THEN CleanLoop(Tail(servers), configured, out)
    ELSE LET ip == CurrentIp(servers[1])
             entry == [name |-> NewName(servers[1].name), old_name |-> servers[1].name,
                       ansible_host |-> IF ip.ok THEN ip ELSE Unset]
         IN  IF ip.ok THEN CleanLoop(Tail(servers), configured, Append(out, entry))
             ELSE [ok |-> FALSE, unmanaged |-> Append(out, entry)]

\* _clean_hetzner_server
CleanHetznerServer ==
    /\ pc = "clean"
    /\ LET r == CleanLoop(hcloud_servers, servers_configured, inventory.unmanaged)
       IN  /\ inventory' = [inventory EXCEPT !.unmanaged = r.unmanaged]
           /\ IF r.ok THEN pc' = NextPhase(pc) /\ err' = err
              ELSE Fail("server without network")
    /\ UNCHANGED <<config, cloud, pass, cloud_calls, hcloud_servers, hcloud_volumes,
                   servers_configured, volumes_configured, time_assigner, network_manager,
                   location_manager, cur_group, cur_host, draws, first_out,
                   calls>>

\* _initialize_inventory, line 771
SetDefaultUser ==
    /\ pc = "set_user"
    /\ inventory' = [inventory EXCEPT !.ansible_user = "root"]
    /\ pc' = NextPhase(pc)
    /\ UNCHANGED <<config, cloud, err, pass, cloud_calls, hcloud_servers, hcloud_volumes,
                   servers_configured, volumes_configured, time_assigner, network_manager,
                   location_manager, cur_group, cur_host, draws, first_out,
                   calls>>

\* a second parse() on the same plugin instance, with the configuration file and
\* the account unchanged and a fresh InventoryData: the attributes set in
\* __init__ keep their values until parse() assigns them again
Rerun ==
    /\ pass = 1
    /\ pc \in {"done", "failed"}
    /\ first_out' = [inventory |-> inventory, pc |-> pc, err |-> err]
    /\ pass' = 2
    /\ pc' = "validate_structure"
    /\ err' = NoErr
    /\ inventory' = EmptyInventory
    /\ draws' = <<>>
    /\ UNCHANGED <<config, cloud, cloud_calls, hcloud_servers, hcloud_volumes,
                   servers_configured, volumes_configured, time_assigner, network_manager,
                   location_manager, cur_group, cur_host, calls>>

----------------------------------------------------------------------------
(* The configurations and accounts the passes are run on *)

NameAU == <<"a", "_", "b">>
NameAH == <<"a", "-", "b">>
NameW == <<"w">>

Group(name, type, image, num, is_control, is_worker, storage, locations) ==
    [name |-> name, type |-> type, image |-> image, num |-> num,
     is_control |-> is_control, is_worker |-> is_worker, storage |-> storage,
     locations |-> locations]

\* a_b: control plane and worker, with storage, default image and locations
GroupAUb(n) == Group(NameAU, "cx21", None, n, TRUE, TRUE, TRUE, NoLocations)
\* a_b as control plane only
GroupAUc(n) == Group(NameAU, "cx21", None, n, TRUE, FALSE, TRUE, NoLocations)
\* a-b: workers of the same type, whose host names are those of a_b
GroupAH(n) == Group(NameAH, "cx21", None, n, FALSE, TRUE, FALSE, <<"nbg1", "fsn1">>)
\* w: workers of another type and image, with storage
GroupW(n) == Group(NameW, "cx31", "ubuntu", n, FALSE, TRUE, TRUE, NoLocations)

\* the "nodes" sections, with replica counts from nums
NodeSets(nums) ==
    {<<GroupAUb(n)>> : n \in nums}
    \cup {<<GroupAUb(n[1]), GroupAH(n[2])>> : n \in nums \X nums}
    \cup {<<GroupAUc(n[1]), GroupW(n[2])>> : n \in nums \X nums}

Volume(name, size) == [is_dict |-> TRUE, name |-> name, size |-> size]

Config(nodes, start_time, end_time, private_cidr, volumes) ==
    [nodes |-> nodes, token |-> TRUE, start_time |-> start_time, end_time |-> end_time,
     private_cidr |-> private_cidr, volumes |-> volumes]

Server(name, image, server_type, is_control, is_worker, internal_ip, location, net) ==
    [id |-> 0, name |-> name, image |-> image, server_type |-> server_type,
     is_control |-> is_control, is_worker |-> is_worker, internal_ip |-> internal_ip,
     location |-> location, net |-> net]

\* the names servers have: the first hosts of a_b (and a-b) and of w
ServerNames == {Hostname(NameAU, 1), Hostname(NameW, 1)}

\* a server labelled the way the group of its name is configured
ServerLike(name, is_control, is_worker, internal_ip, location, net) ==
    IF name = Hostname(NameW, 1)
    THEN Server(name, "ubuntu", "cx31", is_control, is_worker, internal_ip, location, net)
    ELSE Server(name, DefaultImage, "cx21", is_control, is_worker, internal_ip, location, net)

\* servers that differ in name and recorded address only
PlainServers ==
    {ServerLike(n, "false", "true", ip, "fsn1", "v4") : n \in ServerNames, ip \in {NoIP, 1, 2}}

\* servers that differ in one more respect: the recorded roles, an address that
\* is the broadcast address of the small block, another type or image, the
\* recorded location, the public network
VariedServers ==
    {ServerLike(n, r[1], r[2], ip, "fsn1", "v4") :
        n \in ServerNames, ip \in {1, 3},
        r \in {<<"true", "true">>, <<"true", "false">>, <<"false", "false">>, <<None, None>>}}
    \cup {[ServerLike(n, "false", "true", 1, "fsn1", "v4") EXCEPT !.server_type = "cx41"] :
             n \in ServerNames}
    \cup {[ServerLike(n, "false", "true", 1, "fsn1", "v4") EXCEPT !.image = None] :
             n \in ServerNames}
    \cup {ServerLike(n, "false", "true", 1, l, net) :
             n \in ServerNames, l \in {None, "hel1"}, net \in {"v4"}}
    \cup {ServerLike(n, "false", "true", 1, "fsn1", net) :
             n \in ServerNames, net \in {"v6", "none"}}

\* server ids are unique: the position in the account's list
WithIds(list) == [i \in 1..Len(list) |-> [list[i] EXCEPT !.id = i]]

\* all lists of at most n elements of S
RECURSIVE ListsUpTo(_, _)
ListsUpTo(S, n) ==
    IF n = 0 THEN {<<>>}
    ELSE LET shorter == ListsUpTo(S, n - 1)
         IN  shorter \cup {Append(l, x) : l \in {m \in shorter : Len(m) = n - 1}, x \in S}

\* server names are unique in an account
UniqueNames(l) == \A i, j \in 1..Len(l) : i # j => l[i].name # l[j].name

ServerLists ==
    {l \in ListsUpTo(PlainServers, MaxServers)
           \cup {<<v>> : v \in VariedServers}
           \cup {<<p, v>> : p \in PlainServers, v \in VariedServers} : UniqueNames(l)}

Account(servers, volumes) ==
    [api_ok |-> TRUE, servers |-> WithIds(servers), volumes |-> WithIds(volumes)]

GoodStart == <<2, 0>>
GoodEnd == <<3, 0>>

\* passes that differ in the servers found: matching, addresses, locations
MatchingInputs ==
    {[config |-> Config(nodes, GoodStart, GoodEnd, bits, <<>>), cloud |-> Account(servers, <<>>)] :
        nodes \in NodeSets({1, MaxNum}), bits \in {2, 3}, servers \in ServerLists}

\* the maintenance windows: an hour, two minutes, an empty one, one that strptime rejects
Windows == {<<GoodStart, GoodEnd>>, <<GoodStart, <<2, 2>>>>, <<GoodEnd, GoodStart>>,
            <<GoodStart, <<24, 0>>>>}

\* passes that differ in the sizes: replica counts, window, network block
CapacityInputs ==
    {[config |-> Config(nodes, w[1], w[2], bits, <<>>), cloud |-> Account(servers, <<>>)] :
        nodes \in NodeSets(0..MaxNum), w \in Windows, bits \in {2, 3, NoNet},
        servers \in {<<>>, <<ServerLike(Hostname(NameAU, 1), "false", "true", 1, "fsn1", "v4")>>}}

\* servers left over from earlier passes: of a host name, or already renamed
LeftoverNames ==
    {Hostname(NameW, 1), RemovePrefix \o Hostname(NameW, 1), RemovePrefix \o Hostname(NameAU, 1)}

LeftoverServers ==
    {ServerLike(n, "false", "true", ip, "fsn1", net) :
        n \in LeftoverNames, ip \in {NoIP, 1}, net \in {"v4", "none"}}

\* passes that differ in the servers nobody claims
LeftoverInputs ==
    {[config |-> Config(nodes, GoodStart, GoodEnd, 3, <<>>), cloud |-> Account(servers, <<>>)] :
        nodes \in {<<GroupAUb(1)>>, <<GroupAUc(1), GroupW(1)>>},
        servers \in {l \in ListsUpTo(LeftoverServers, MaxServers) : UniqueNames(l)}}

NameC == <<"c">>

\* c: a second group of control plane nodes that are workers too
GroupC(n) == Group(NameC, "cx21", None, n, TRUE, TRUE, FALSE, NoLocations)

\* passes that differ in the control plane: one or two control groups
ControlInputs ==
    {[config |-> Config(nodes, GoodStart, GoodEnd, 3, <<>>), cloud |-> Account(<<>>, <<>>)] :
        nodes \in {<<GroupAUb(n[1]), GroupC(n[2])>> : n \in (0..MaxNum) \X (0..MaxNum)}
                  \cup {<<GroupAUc(n[1]), GroupW(1), GroupC(n[2])>> : n \in (1..MaxNum) \X (1..MaxNum)}}

VolumeD == <<"d">>
VolumeE == <<"e">>

\* the "volumes" sections
VolumeSections ==
    {<<Volume(VolumeD, <<"2", "G">>)>>,
     <<Volume(VolumeD, <<"2", "G">>), Volume(VolumeE, <<"1", "g">>)>>,
     <<Volume(VolumeD, <<"3">>)>>}

\* the names volumes have: those of the first hosts, and one of no host
VolumeNames ==
    {ExpectedVolumeName(Hostname(NameAU, 1), VolumeD), ExpectedVolumeName(Hostname(NameAU, 1), VolumeE),
     ExpectedVolumeName(Hostname(NameW, 1), VolumeD), <<"z">>}

\* volume names are unique in an account
VolumeLists ==
    {l \in ListsUpTo([id : {0}, name : VolumeNames, size : 1..3], MaxVolumes) :
        \A i, j \in 1..Len(l) : i # j => l[i].name # l[j].name}

\* passes that differ in the volumes configured and found
VolumeInputs ==
    {[config |-> Config(nodes, GoodStart, GoodEnd, 3, vs), cloud |-> Account(servers, volumes)] :
        nodes \in {<<GroupAUb(1)>>} \cup {<<GroupAUc(1), GroupW(n)>> : n \in 1..MaxNum},
        vs \in VolumeSections, volumes \in VolumeLists, servers \in {<<>>}}

\* a configuration that passes validation
SoundConfig == Config(<<GroupAUc(1), GroupW(1)>>, GoodStart, GoodEnd, 3, <<Volume(VolumeD, <<"2", "G">>)>>)

\* configurations with one thing missing or malformed
BrokenConfigs ==
    {[SoundConfig EXCEPT !.nodes = <<>>],
     [SoundConfig EXCEPT !.token = FALSE],
     [SoundConfig EXCEPT !.start_time = NoTime],
     [SoundConfig EXCEPT !.end_time = NoTime],
     [SoundConfig EXCEPT !.nodes[2].is_worker = FALSE],
     [SoundConfig EXCEPT !.nodes[2].type = None],
     [SoundConfig EXCEPT !.nodes[1].num = NoNum],
     [SoundConfig EXCEPT !.nodes = <<GroupW(1)>>],
     [SoundConfig EXCEPT !.nodes = <<GroupAUc(1)>>],
     [SoundConfig EXCEPT !.volumes[1].is_dict = FALSE],
     [SoundConfig EXCEPT !.volumes[1].name = <<>>],
     [SoundConfig EXCEPT !.volumes[1].size = <<>>]}

\* passes on a broken configuration, or with the cloud API failing
InvalidInputs ==
    {[config |-> c, cloud |-> Account(servers, volumes)] :
        c \in BrokenConfigs \cup {SoundConfig},
        servers \in {<<>>, <<ServerLike(Hostname(NameAU, 1), "false", "false", 1, "fsn1", "v4")>>},
        volumes \in {<<>>, <<[id |-> 0, name |-> ExpectedVolumeName(Hostname(NameW, 1), VolumeD), size |-> 3]>>}}
    \cup {[config |-> SoundConfig, cloud |-> [Account(<<>>, <<>>) EXCEPT !.api_ok = FALSE]]}

Inputs ==
    MatchingInputs \cup CapacityInputs \cup VolumeInputs \cup InvalidInputs \cup LeftoverInputs
    \cup ControlInputs

----------------------------------------------------------------------------
(* Specifications *)

\* the plugin instance after __init__, when parse() has read the configuration
Init ==
    /\ \E input \in Inputs : config = input.config /\ cloud = input.cloud
    /\ pc = "validate_structure"
    /\ err = NoErr
    /\ pass = 1
    /\ cloud_calls = 0
    /\ hcloud_servers = <<>>
    /\ hcloud_volumes = <<>>
    /\ servers_configured = <<>>
    /\ volumes_configured = <<>>
    /\ time_assigner = NoTimeAssigner
    /\ network_manager = NoNetworkManager
    /\ location_manager = NoLocationManager
    /\ cur_group = 0
    /\ cur_host = 0
    /\ inventory = EmptyInventory
    /\ draws = <<>>
    /\ first_out = [inventory |-> EmptyInventory, pc |-> "none", err |-> NoErr]
    /\ calls = <<>>

Next ==
    \/ ValidateStructure
    \/ LoadHcloudData
    \/ ValidateLogic
    \/ AddBaseGroups
    \/ InitHostTimeAssigner
    \/ InitNetworkManager
    \/ PrepareGroup
    \/ AddHost
    \/ SetOrphanVolumes
    \/ CleanHetznerServer
    \/ SetDefaultUser

\* one pass
Spec == Init /\ [][Next]_vars

\* two passes on the same instance
SpecTwice == Init /\ [][Next \/ Rerun]_vars

----------------------------------------------------------------------------
(* Properties of the pass *)

\* the host addresses of the configured block
ConfiguredHosts == NetworkHosts(PrivateHostBits(config))

\* the ids of the servers claimed by the hosts processed so far
ClaimedIds == {draws[i].found : i \in 1..Len(draws)} \ {0}

\* nothing was written to the sink
SinkUntouched == inventory = EmptyInventory

\* no allocator was built and no host was given an address, a location or a slot
NothingAllocated ==
    /\ time_assigner = NoTimeAssigner
    /\ network_manager = NoNetworkManager
    /\ location_manager = NoLocationManager
    /\ draws = <<>>

\* C1: in a pass that completes, the internal addresses of the host records are
\* pairwise distinct and each is a host address of the configured network block.
C1_AddressesDistinctInRange ==
    pc = "done" =>
        /\ \A i \in 1..Len(inventory.hosts) : inventory.hosts[i].internal_ip \in ConfiguredHosts
        /\ \A i, j \in 1..Len(inventory.hosts) :
              i # j => inventory.hosts[i].internal_ip # inventory.hosts[j].internal_ip

\* C2: no two desired hosts are matched to the same observed server, and a
\* server that was claimed is not reported in the unmanaged list.
C2_ServerClaimedOnce ==
    /\ \A i, j \in 1..Len(draws) :
          (i # j /\ draws[i].found # 0) => draws[i].found # draws[j].found
    /\ \A u \in 1..Len(inventory.unmanaged) :
          inventory.unmanaged[u].ansible_host.server \notin ClaimedIds

\* the account holds a volume named <hostname>_<volume name>, for a host of a
\* storage group and a configured volume, that is larger than configured
LargerVolumeObserved ==
    \E gi \in 1..Len(config.nodes) : \E vi \in 1..Len(config.volumes) :
    \E k \in 1..Len(cloud.volumes) :
        /\ config.nodes[gi].storage
        /\ \E host \in 1..GroupNum(config.nodes[gi]) :
              cloud.volumes[k].name = ExpectedVolumeName(Hostname(config.nodes[gi].name, host),
                                                         config.volumes[vi].name)
        /\ cloud.volumes[k].size > ConfigGb(config.volumes[vi].size)

\* C3: if the snapshot holds a volume of a storage host that is larger than
\* configured, the pass that got as far as logic validation aborts there with the
\* shrinking error, before anything is allocated or written to the sink.
C3_ShrinkAborts ==
    (/\ ValidateConfigStructure(config) = NoErr
     /\ cloud.api_ok
     /\ LargerVolumeObserved)
    => \/ pc \in {"validate_structure", "load", "validate_logic"}
       \/ /\ pc = "failed"
          /\ err = "volume shrinking"
          /\ SinkUntouched
          /\ NothingAllocated

\* a pass that was aborted for a larger observed volume
C3_Witness ==
    /\ pc = "failed" /\ err = "volume shrinking"
    /\ LargerVolumeObserved
    /\ hcloud_volumes # <<>>

\* the AnsibleErrors of _validate_config_structure
StructureErrors ==
    {"nodes empty", "token missing", "times missing", "group without role",
     "group without type", "group without num", "no control group", "no worker group",
     "two control nodes", "volume not a dictionary", "volume without name",
     "volume without size"}

\* the errors raised before _initialize_inventory
ValidationErrors == StructureErrors \cup {"cloud API error", "volume shrinking"}

BaseGroups == <<"controlplane", "worker", "managed", "unmanaged">>

\* C4 as stated: a failure raised in any phase leaves the sink with no group,
\* host or variable written by the pass.
C4_NoPartialOutput == pc = "failed" => SinkUntouched

\* C4 as amended: a failure raised in validation or in the fetch leaves the sink
\* untouched; a later failure leaves what was written before it: the four base
\* groups when the window or a recorded address is rejected, and also the
\* groups and hosts already processed when a host or an unmanaged server fails
\* (every host record but the last is complete); the default user is never set.
C4_PartialOutputAfterValidation ==
    pc = "failed" =>
        /\ inventory.ansible_user = None
        /\ err \in ValidationErrors => SinkUntouched
        /\ err \notin ValidationErrors =>
              /\ inventory.base_groups = BaseGroups
              /\ \A i \in 1..(Len(inventory.hosts) - 1) : inventory.hosts[i].managed
        /\ err \in {"time window", "reserve internal_ip"} =>
              inventory.groups = <<>> /\ inventory.hosts = <<>>

\* a pass that ran out of addresses after a host was written
C4_Witness ==
    /\ pc = "failed" /\ err = "no addresses left"
    /\ inventory.hosts # <<>>
    /\ inventory.base_groups = BaseGroups

\* C5: structural validation precedes the fetch and logic validation precedes
\* matching and allocation: the cloud is called only for a structurally valid
\* configuration, a sink write or an allocation happens only after both
\* validations passed, and a pass that failed validation has written nothing and
\* touched no allocator (nor called the cloud, for a structural failure).
C5_ValidationFirst ==
    /\ cloud_calls > 0 => ValidateConfigStructure(config) = NoErr
    /\ (~SinkUntouched \/ ~NothingAllocated) =>
          /\ ValidateConfigStructure(config) = NoErr
          /\ cloud_calls > 0
          /\ ~ValidateConfigLogicFails(config, hcloud_volumes)
    /\ (pc = "failed" /\ err \in StructureErrors) =>
          cloud_calls = 0 /\ SinkUntouched /\ NothingAllocated
    /\ (pc = "failed" /\ err = "volume shrinking") => SinkUntouched /\ NothingAllocated

\* a pass stopped by logic validation, after the fetch
C5_Witness ==
    /\ pc = "failed" /\ err = "volume shrinking"
    /\ cloud_calls = 1
    /\ SinkUntouched /\ NothingAllocated

\* the number of desired hosts
TotalHosts == SumSeq([i \in 1..Len(config.nodes) |-> GroupNum(config.nodes[i])])

\* the length of the maintenance window in minutes
WindowMinutes == ParseTime(config.end_time) - ParseTime(config.start_time)

\* the configuration is one the pass gets through validation with
WellFormed ==
    /\ ValidateConfigStructure(config) = NoErr
    /\ ValidTime(config.start_time) /\ ValidTime(config.end_time)

\* some host was given a location, an address or a slot by an allocator
Allocated == \E i \in 1..Len(draws) : draws[i].location \/ draws[i].ip \/ draws[i].slot

\* C6 as stated: when the desired hosts outnumber the addresses of the block or
\* the minutes of the window, the pass fails before any address, placement or
\* slot has been allocated.
C6_CapacityCheckedFirst ==
    (WellFormed /\ (TotalHosts > Cardinality(ConfiguredHosts) \/ TotalHosts > WindowMinutes))
    => ~Allocated /\ pc # "done"

\* C6 as amended: only the window is checked before allocation. When the hosts
\* outnumber its minutes the pass fails in the time assigner with nothing
\* allocated; running out of addresses is found at the get_next_ip call that
\* finds every host address taken.
C6_WindowCheckedFirst ==
    /\ (WellFormed /\ TotalHosts > WindowMinutes) =>
          /\ ~Allocated
          /\ pc \in {"validate_structure", "load", "validate_logic", "base_groups",
                     "time_assigner", "failed"}
          /\ pc = "failed" => err \in {"cloud API error", "volume shrinking", "time window"}
    /\ (pc = "failed" /\ err = "no addresses left") =>
          ConfiguredHosts \subseteq network_manager.assigned

\* a pass rejected for a window shorter than the number of hosts
C6_Witness ==
    /\ pc = "failed" /\ err = "time window"
    /\ WellFormed /\ WindowMinutes > 0 /\ TotalHosts > WindowMinutes

\* C7: a second pass on the same configuration and the same account ends as
\* the first did, with the same inventory: the same hosts in the same order with
\* the same variables, the same unmanaged servers and the same orphan volumes.
C7_SecondPassIdentical ==
    pass = 2 =>
        /\ pc # "hung"
        /\ pc \in {"done", "failed"} =>
              /\ pc = first_out.pc
              /\ err = first_out.err
              /\ inventory = first_out.inventory

\* a second pass completed with a matched host, a new host and an unmanaged server
C7_Witness ==
    /\ pass = 2 /\ pc = "done" /\ first_out.pc = "done"
    /\ \E i, j \in 1..Len(inventory.hosts) :
          inventory.hosts[i].create /\ ~inventory.hosts[j].create
    /\ inventory.unmanaged # <<>>

\* the host records of group g
HostsOf(g) == {i \in 1..Len(inventory.hosts) : inventory.hosts[i].group = g.name}

\* C8: in a completed pass every desired host, matched or not, has one
\* maintenance slot, hosts of one group have different slots, the slots drawn for
\* a group are as many as its hosts, and no draw fails for an empty queue.
C8_OneSlotPerHost ==
    /\ err # "no slots left"
    /\ pc = "done" =>
          /\ \A gi \in 1..Len(config.nodes) :
                /\ Cardinality(HostsOf(config.nodes[gi])) = GroupNum(config.nodes[gi])
                /\ time_assigner.group_slot_index[config.nodes[gi].name] = GroupNum(config.nodes[gi])
                /\ \A i, j \in HostsOf(config.nodes[gi]) :
                      i # j => inventory.hosts[i].upgrade_time # inventory.hosts[j].upgrade_time
          /\ \A i \in 1..Len(inventory.hosts) :
                draws[i].slot /\ inventory.hosts[i].upgrade_time # NoTime

\* a completed pass with two hosts of one group, one of them matched
C8_Witness ==
    /\ pc = "done"
    /\ \E i, j \in 1..Len(inventory.hosts) :
          /\ i # j
          /\ inventory.hosts[i].group = inventory.hosts[j].group
          /\ draws[i].found # 0
          /\ draws[j].found = 0

\* the configured group of the i-th host processed
DrawGroup(i) ==
    config.nodes[CHOOSE gi \in 1..Len(config.nodes) : config.nodes[gi].name = draws[i].group]

\* server s has the host's name, the group's type and image, no role the group
\* lacks, and a recorded internal address
Qualifying(s, g, hostname) ==
    /\ s.name = hostname
    /\ s.image = GroupImage(g)
    /\ s.server_type = g.type
    /\ (s.is_control = "true" => g.is_control)
    /\ (s.is_worker = "true" => g.is_worker)
    /\ s.internal_ip # NoIP

\* the positions of the servers qualifying for the i-th host processed
QualifyingFor(i) ==
    {k \in 1..Len(hcloud_servers) : Qualifying(hcloud_servers[k], DrawGroup(i), draws[i].hostname)}

RecordedAddresses == {hcloud_servers[k].internal_ip : k \in 1..Len(hcloud_servers)}

\* C10: in a completed pass a matched host has create false, the address and
\* the location recorded on the claimed server and a reachable address; an
\* unmatched host has create true, an address and a location drawn from the
\* allocators (an address of the block that no server records and no earlier
\* host has, a location of the group's list) and no reachable address.
C10_RecordFollowsMatch ==
    pc = "done" =>
        \A i \in 1..Len(inventory.hosts) :
            LET h == inventory.hosts[i]
                d == draws[i]
            IN  IF d.found # 0
                THEN /\ ~h.create
                     /\ h.internal_ip = hcloud_servers[d.found].internal_ip
                     /\ h.location = hcloud_servers[d.found].location
                     /\ h.ansible_host # Unset
                     /\ h.ansible_host.server = d.found
                     /\ ~d.ip /\ ~d.location
                ELSE /\ h.create
                     /\ d.ip /\ d.location
                     /\ h.internal_ip \in ConfiguredHosts \ RecordedAddresses
                     /\ \A j \in 1..(i - 1) : inventory.hosts[j].internal_ip # h.internal_ip
                     /\ \E l \in 1..Len(GroupLocations(DrawGroup(i))) :
                           GroupLocations(DrawGroup(i))[l] = h.location
                     /\ h.ansible_host = Unset

\* a completed pass with a matched host before a new one
C10_Witness ==
    /\ pc = "done"
    /\ \E i, j \in 1..Len(draws) : i < j /\ draws[i].found # 0 /\ draws[j].found = 0

\* the composed names of the volume plans emitted for the hosts
PlanNames ==
    {ExpectedVolumeName(inventory.hosts[i].hostname, inventory.hosts[i].cluster_volumes[v].name) :
        i \in {h \in 1..Len(inventory.hosts) : inventory.hosts[h].has_volumes},
        v \in 1..Len(config.volumes)}

\* the ids recorded in the volume plans
PlanIds ==
    {inventory.hosts[i].cluster_volumes[v].id :
        i \in {h \in 1..Len(inventory.hosts) : inventory.hosts[h].has_volumes},
        v \in 1..Len(config.volumes)} \ {0}

\* the positions at which the orphan list names the volume
OrphanEntries(volume) ==
    {o \in 1..Len(inventory.orphan_volumes) : inventory.orphan_volumes[o].id = volume.id}

\* C11: after a completed pass an observed volume is in the orphan list, once,
\* exactly when its name is the composed name of no volume plan of the pass, and
\* a volume whose id a plan records is not in the list.
C11_OrphansAreUnplanned ==
    pc = "done" =>
        /\ \A k \in 1..Len(hcloud_volumes) :
              Cardinality(OrphanEntries(hcloud_volumes[k])) =
                  IF hcloud_volumes[k].name \in PlanNames THEN 0 ELSE 1
        /\ \A o \in 1..Len(inventory.orphan_volumes) :
              /\ inventory.orphan_volumes[o].id \notin PlanIds
              /\ \E k \in 1..Len(hcloud_volumes) : inventory.orphan_volumes[o] = hcloud_volumes[k]

\* a completed pass with one volume found for a plan and another left over
C11_Witness ==
    /\ pc = "done"
    /\ PlanIds # {}
    /\ inventory.orphan_volumes # <<>>

\* the name an unclaimed server is to be recorded under
MarkedName(name) == IF StartsWith(name, RemovePrefix) THEN name ELSE RemovePrefix \o name

\* the positions at which the unmanaged group holds a host of that name
UnmanagedNamed(name) ==
    {u \in 1..Len(inventory.unmanaged) : inventory.unmanaged[u].name = name}

\* C12: in a completed pass every server no host claimed is in the unmanaged
\* group exactly once, under its name with the marker in front (or unchanged when
\* it starts with the marker), with its original name and a reachable address.
C12_UnclaimedRecordedOnce ==
    pc = "done" =>
        \A k \in 1..Len(hcloud_servers) :
            hcloud_servers[k].id \notin ClaimedIds =>
                /\ Cardinality(UnmanagedNamed(MarkedName(hcloud_servers[k].name))) = 1
                /\ \A u \in UnmanagedNamed(MarkedName(hcloud_servers[k].name)) :
                      /\ inventory.unmanaged[u].old_name = hcloud_servers[k].name
                      /\ inventory.unmanaged[u].ansible_host.ok
                      /\ inventory.unmanaged[u].ansible_host.server = hcloud_servers[k].id

\* the host records that carry volume plans
StorageHosts == {h \in 1..Len(inventory.hosts) : inventory.hosts[h].has_volumes}

\* the positions of the observed volumes that have the composed name of plan v of host i
ObservedFor(i, v) ==
    {k \in 1..Len(hcloud_volumes) :
        hcloud_volumes[k].name =
            ExpectedVolumeName(inventory.hosts[i].hostname, config.volumes[v].name)}

\* C13: for every volume plan, needs_create is true exactly when no observed
\* volume has the composed name, and exactly when the recorded id is null;
\* needs_resize is true exactly when such a volume exists with another size than
\* configured; the two are never both true; and in a completed pass needs_resize
\* means the configured size is greater than the observed one.
C13_VolumePlanFlags ==
    \A i \in StorageHosts : \A v \in 1..Len(config.volumes) :
        LET e == inventory.hosts[i].cluster_volumes[v]
            configured == ConfigGb(config.volumes[v].size)
        IN  /\ e.needs_create <=> ObservedFor(i, v) = {}
            /\ e.needs_create <=> e.id = 0
            /\ e.id # 0 => \E k \in ObservedFor(i, v) : hcloud_volumes[k].id = e.id
            /\ e.needs_resize <=>
                  \E k \in ObservedFor(i, v) : hcloud_volumes[k].size # configured
            /\ ~(e.needs_create /\ e.needs_resize)
            /\ (pc = "done" /\ e.needs_resize) =>
                  \A k \in ObservedFor(i, v) : configured > hcloud_volumes[k].size

\* a completed pass with a volume to grow, one to keep and one to create
C13_Witness ==
    /\ pc = "done"
    /\ \E i \in StorageHosts : \E v \in 1..Len(config.volumes) :
          inventory.hosts[i].cluster_volumes[v].needs_resize
    /\ \E i \in StorageHosts : \E v \in 1..Len(config.volumes) :
          /\ inventory.hosts[i].cluster_volumes[v].id # 0
          /\ ~inventory.hosts[i].cluster_volumes[v].needs_resize
    /\ \E i \in StorageHosts : \E v \in 1..Len(config.volumes) :
          inventory.hosts[i].cluster_volumes[v].needs_create

\* the replica counts of the control-capable groups, added up
RECURSIVE ControlSumOf(_)
ControlSumOf(nodes) ==
    IF nodes = <<>> THEN 0
    ELSE (IF nodes[1].is_control /\ nodes[1].num # NoNum THEN nodes[1].num ELSE 0)
         + ControlSumOf(Tail(nodes))

ControlSum == ControlSumOf(config.nodes)

ConflictingRecord ==
    \E k \in 1..Len(hcloud_servers) :
        /\ hcloud_servers[k].internal_ip # NoIP
        /\ \/ hcloud_servers[k].internal_ip \notin ConfiguredHosts
           \/ \E j \in 1..(k - 1) : hcloud_servers[j].internal_ip = hcloud_servers[k].internal_ip

\* the steps of the pass that come after the recorded addresses were reserved
HostProcessing == {"prepare_group", "add_host", "orphans", "clean", "set_user", "done"}

\* with a conflicting record the pass never gets to its hosts, and the
\* reservation error is raised for nothing else
FatalAtStartup ==
    /\ ConflictingRecord => (pc \notin HostProcessing /\ draws = <<>> /\ inventory.hosts = <<>>)
    /\ (pc = "failed" /\ err = "reserve internal_ip") => (ConflictingRecord /\ draws = <<>>)

\* the step is _add_host for a host that found its server
MatchedHostStep ==
    /\ pc = "add_host"
    /\ Len(draws') = Len(draws) + 1
    /\ draws'[Len(draws')].found # 0

\* the step neither changes the address manager nor ends the pass for an address
ReconfirmHarmless ==
    /\ network_manager' = network_manager
    /\ err' \notin {"reserve internal_ip", "no addresses left"}
    /\ hcloud_servers[draws'[Len(draws')].found].internal_ip \in network_manager.assigned

\* C15: an address that cannot be reserved is fatal at startup and harmless
\* later: two servers recording one address, or a record outside the host range,
\* end the pass before any host is processed, and reserving again the recorded
\* address of a matched server neither ends the pass nor changes what is reserved.
C15_ReservedFatalOnlyAtStartup == []FatalAtStartup /\ [][MatchedHostStep => ReconfirmHarmless]_vars

\* a pass ended at startup by two servers that record the same host address
C15_Witness ==
    /\ pc = "failed" /\ err = "reserve internal_ip"
    /\ draws = <<>>
    /\ \E j, k \in 1..Len(hcloud_servers) :
          /\ j # k
          /\ hcloud_servers[j].internal_ip = hcloud_servers[k].internal_ip
          /\ hcloud_servers[j].internal_ip \in ConfiguredHosts

----------------------------------------------------------------------------
(* The allocators used on their own *)

\* no pass is running
IdlePass ==
    /\ config = SoundConfig
    /\ cloud = Account(<<>>, <<>>)
    /\ pc = "allocator"
    /\ err = NoErr
    /\ pass = 1
    /\ cloud_calls = 0
    /\ hcloud_servers = <<>>
    /\ hcloud_volumes = <<>>
    /\ servers_configured = <<>>
    /\ volumes_configured = <<>>
    /\ time_assigner = NoTimeAssigner
    /\ cur_group = 0
    /\ cur_host = 0
    /\ inventory = EmptyInventory
    /\ draws = <<>>
    /\ first_out = [inventory |-> EmptyInventory, pc |-> "none", err |-> NoErr]

PassVars == <<config, cloud, pc, err, pass, cloud_calls, hcloud_servers, hcloud_volumes,
              servers_configured, volumes_configured, time_assigner, cur_group, cur_host,
              inventory, draws, first_out>>

\* the blocks a NetworkManager is built for: a /30 and a /29
NetBits == {2, 3}

\* NetworkManager(network)
InitNetwork ==
    /\ IdlePass
    /\ \E bits \in NetBits : network_manager = NetworkManagerNew(bits)
    /\ location_manager = NoLocationManager
    /\ calls = <<>>

\* a call of get_next_ip
NetNext ==
    /\ Len(calls) < MaxCalls
    /\ LET r == GetNextIp(network_manager)
       IN  /\ network_manager' = r.nm
           /\ calls' = Append(calls, [op |-> "next", arg |-> NoIP, ok |-> r.ok, ip |-> r.ip])
    /\ UNCHANGED <<PassVars, location_manager>>

\* a call of reserve_ip, with an address of the block or the one behind it
NetReserve ==
    /\ Len(calls) < MaxCalls
    /\ \E ip \in 0..Pow2(network_manager.hostbits) :
          LET r == ReserveIp(network_manager, ip)
          IN  /\ network_manager' = r.nm
              /\ calls' = Append(calls, [op |-> "reserve", arg |-> ip, ok |-> r.ok, ip |-> NoIP])
    /\ UNCHANGED <<PassVars, location_manager>>

NextNetwork ==
    \/ NetNext
    \/ NetReserve

\* any sequence of get_next_ip and reserve_ip calls on one NetworkManager
SpecNetwork == InitNetwork /\ [][NextNetwork]_vars

\* the usable host addresses of the manager's block
Usable == 1..(Pow2(network_manager.hostbits) - 2)

\* the addresses that calls before the i-th returned or reserved
TakenBefore(i) ==
    {calls[j].ip : j \in {k \in 1..(i - 1) : calls[k].op = "next" /\ calls[k].ok}}
    \cup {calls[j].arg : j \in {k \in 1..(i - 1) : calls[k].op = "reserve" /\ calls[k].ok}}

\* the get_next_ip calls that returned an address
Returned == {i \in 1..Len(calls) : calls[i].op = "next" /\ calls[i].ok}

\* C16: every get_next_ip that succeeds returns the lowest usable host address
\* that no earlier call reserved or returned (and one succeeds whenever such an
\* address is left), so successive results are strictly ascending and are never
\* the network or the broadcast address.
C16_NextIsLowestFree ==
    /\ \A i \in 1..Len(calls) :
          calls[i].op = "next" =>
              /\ calls[i].ok <=> Usable \ TakenBefore(i) # {}
              /\ calls[i].ok =>
                    /\ calls[i].ip \in Usable \ TakenBefore(i)
                    /\ \A f \in Usable \ TakenBefore(i) : calls[i].ip <= f
    /\ \A i, j \in Returned : i < j => calls[i].ip < calls[j].ip
    /\ \A i \in Returned :
          calls[i].ip # 0 /\ calls[i].ip # Pow2(network_manager.hostbits) - 1

\* the lowest address reserved first, then two draws around a reserved one
C16_Witness ==
    /\ Len(calls) = 4
    /\ calls[1].op = "reserve" /\ calls[1].ok /\ calls[1].arg = 1
    /\ calls[2].op = "reserve" /\ calls[2].ok /\ calls[2].arg = 3
    /\ calls[3].op = "next" /\ calls[3].ip = 2
    /\ calls[4].op = "next" /\ calls[4].ip = 4

\* C17: get_next_ip never returns an address that an earlier reserve_ip
\* reserved or an earlier get_next_ip returned, wherever the address lies
\* relative to the addresses already walked.
C17_NeverHandedOutTwice ==
    \A j \in Returned : \A i \in 1..(j - 1) :
        /\ (calls[i].op = "next" /\ calls[i].ok) => calls[j].ip # calls[i].ip
        /\ (calls[i].op = "reserve" /\ calls[i].ok) => calls[j].ip # calls[i].arg

\* a draw, a reservation ahead of it, and two more draws that pass over both
C17_Witness ==
    /\ Len(calls) = 4
    /\ calls[1].op = "reserve" /\ calls[1].ok /\ calls[1].arg = 1
    /\ calls[2].op = "next" /\ calls[2].ip = 2
    /\ calls[3].op = "reserve" /\ calls[3].ok /\ calls[3].arg = 3
    /\ calls[4].op = "next" /\ calls[4].ip = 4

\* a reserve_ip call succeeds exactly for a usable host address not taken before
ReserveOutcome ==
    \A i \in 1..Len(calls) :
        calls[i].op = "reserve" => (calls[i].ok <=> calls[i].arg \in Usable \ TakenBefore(i))

\* the step is a reserve_ip call that raised
FailedReserveStep ==
    /\ Len(calls') = Len(calls) + 1
    /\ calls'[Len(calls')].op = "reserve"
    /\ ~calls'[Len(calls')].ok

\* C18: reserve_ip fails for an address outside the usable host range (the
\* network and the broadcast address included) and for an address already
\* reserved or returned, and succeeds otherwise; a failed call leaves the
\* reserved set, and so the result of the next get_next_ip, as it was.
C18_ReserveFailsCleanly ==
    []ReserveOutcome
    /\ [][FailedReserveStep =>
              /\ network_manager'.assigned = network_manager.assigned
              /\ GetNextIp(network_manager').ip = GetNextIp(network_manager).ip]_vars

\* failed calls for the network address, the broadcast address, an address
\* returned before and an address reserved before
C18_Witness ==
    /\ network_manager.hostbits = 2
    /\ \E i, j \in 1..Len(calls) :
          /\ i < j
          /\ calls[i].op = "next" /\ calls[i].ok
          /\ calls[j].op = "reserve" /\ ~calls[j].ok /\ calls[j].arg = calls[i].ip
    /\ \E i \in 1..Len(calls) : calls[i].op = "reserve" /\ ~calls[i].ok /\ calls[i].arg = 0
    /\ \E i \in 1..Len(calls) : calls[i].op = "reserve" /\ ~calls[i].ok /\ calls[i].arg = 3

\* the lists a ValueManager is built for
CandidateLists ==
    {<<"a", "b", "c">>, <<"c", "a", "b">>, <<"a", "b">>, <<"b", "a">>, <<"a">>,
     <<"a", "b", "a">>, <<>>}

\* ValueManager(values)
InitValues ==
    /\ IdlePass
    /\ \E values \in CandidateLists : location_manager = ValueManagerNew(values)
    /\ network_manager = NoNetworkManager
    /\ calls = <<>>

\* a call of get_next
VmNext ==
    /\ Len(calls) < MaxCalls
    /\ LET r == GetNext(location_manager)
       IN  /\ location_manager' = r.vm
           /\ calls' = Append(calls, [op |-> "next", arg |-> None, ok |-> r.ok, value |-> r.value])
    /\ UNCHANGED <<PassVars, network_manager>>

\* a call of increment, with a value of the list or another one
VmIncrement ==
    /\ Len(calls) < MaxCalls
    /\ \E item \in {"a", "b", "c", "z"} :
          LET r == Increment(location_manager, item)
          IN  /\ location_manager' = r.vm
              /\ calls' = Append(calls, [op |-> "increment", arg |-> item, ok |-> r.ok, value |-> None])
    /\ UNCHANGED <<PassVars, network_manager>>

NextValues ==
    \/ VmNext
    \/ VmIncrement

\* any sequence of get_next and increment calls on one ValueManager
SpecValues == InitValues /\ [][NextValues]_vars

\* the candidates, and the place of each in the order of declaration
Candidates == {location_manager.values[i] : i \in 1..Len(location_manager.values)}

DeclaredBefore(w, v) ==
    \E i \in 1..Len(location_manager.values) :
        /\ location_manager.values[i] = w
        /\ \A j \in 1..i : location_manager.values[j] # v

\* how often calls before the i-th returned or counted value v
UsedBefore(i, v) ==
    Cardinality({j \in 1..(i - 1) :
        \/ calls[j].op = "next" /\ calls[j].ok /\ calls[j].value = v
        \/ calls[j].op = "increment" /\ calls[j].ok /\ calls[j].arg = v})

\* C19: get_next returns a candidate whose counter is the smallest, the one
\* declared first among those, and adds one to the counter of that candidate
\* only; on the candidates a, b, c four calls in a row return a, b, c, a.
C19_NextIsFirstLeastUsed ==
    /\ \A i \in 1..Len(calls) :
          calls[i].op = "next" =>
              /\ calls[i].ok <=> Candidates # {}
              /\ calls[i].ok =>
                    /\ calls[i].value \in Candidates
                    /\ \A w \in Candidates :
                          /\ UsedBefore(i, calls[i].value) <= UsedBefore(i, w)
                          /\ DeclaredBefore(w, calls[i].value) =>
                                UsedBefore(i, calls[i].value) < UsedBefore(i, w)
    /\ \A v \in Candidates : location_manager.counts[v] = UsedBefore(Len(calls) + 1, v)
    /\ (/\ location_manager.values = <<"a", "b", "c">>
        /\ Len(calls) = 4
        /\ \A i \in 1..4 : calls[i].op = "next")
       => <<calls[1].value, calls[2].value, calls[3].value, calls[4].value>> = <<"a", "b", "c", "a">>

\* four calls of get_next on the candidates a, b, c
C19_Witness ==
    /\ location_manager.values = <<"a", "b", "c">>
    /\ Len(calls) = 4
    /\ \A i \in 1..4 : calls[i].op = "next" /\ calls[i].ok
    /\ calls[4].value = "a"

\* all calls made so far were get_next calls
OnlyNextCalls == \A i \in 1..Len(calls) : calls[i].op = "next"

\* C20: after get_next calls only, on a fresh ValueManager, the largest and the
\* smallest counter differ by at most one.
C20_CountersBalanced ==
    OnlyNextCalls =>
        \A v, w \in Candidates : location_manager.counts[v] - location_manager.counts[w] <= 1

\* get_next calls only, with counters that differ
C20_Witness ==
    /\ OnlyNextCalls
    /\ Len(calls) >= 3
    /\ \E v, w \in Candidates : location_manager.counts[v] = location_manager.counts[w] + 1

\* the step is a call of increment
IncrementStep ==
    /\ Len(calls') = Len(calls) + 1
    /\ calls'[Len(calls')].op = "increment"

\* what the call does to the counters
IncrementEffect ==
    LET c == calls'[Len(calls')]
    IN  /\ c.ok <=> c.arg \in Candidates
        /\ IF c.arg \in Candidates
           THEN /\ DOMAIN location_manager'.counts = DOMAIN location_manager.counts
                /\ location_manager'.counts[c.arg] = location_manager.counts[c.arg] + 1
                /\ \A v \in Candidates \ {c.arg} :
                      location_manager'.counts[v] = location_manager.counts[v]
           ELSE location_manager' = location_manager

\* increment("a") and then get_next on a fresh manager of a, b, c gives b
ObservedThenNext ==
    (/\ location_manager.values = <<"a", "b", "c">>
     /\ Len(calls) >= 2
     /\ calls[1].op = "increment" /\ calls[1].arg = "a"
     /\ calls[2].op = "next")
    => calls[2].value = "b"

\* C21: increment on a candidate adds one to the counter of that candidate and
\* leaves the others as they were, so that a later get_next accounts for it
\* (after increment("a") on a fresh a, b, c, get_next returns b); increment on
\* another value fails and leaves all counters as they were.
C21_ObserveCountsOne == []ObservedThenNext /\ [][IncrementStep => IncrementEffect]_vars

\* increment("a"), get_next returning b, and a failed increment
C21_Witness ==
    /\ location_manager.values = <<"a", "b", "c">>
    /\ Len(calls) = 3
    /\ calls[1].op = "increment" /\ calls[1].arg = "a" /\ calls[1].ok
    /\ calls[2].op = "next" /\ calls[2].value = "b"
    /\ calls[3].op = "increment" /\ calls[3].arg = "z" /\ ~calls[3].ok

NameControl == <<"c", "o", "n", "t", "r", "o", "l">>
NameWorkerSmall == <<"w", "o", "r", "k", "e", "r", "_", "s", "m", "a", "l", "l">>
NameWorkerBig == <<"w", "o", "r", "k", "e", "r", "_", "b", "i", "g">>
NameUnknown == <<"u", "n", "k", "n", "o", "w", "n">>

\* the groups of the example in the docstrings of HostTimeAssigner
ExampleNodes ==
    <<Group(NameControl, "cx21", None, 3, TRUE, FALSE, FALSE, NoLocations),
      Group(NameWorkerSmall, "cx21", None, 2, FALSE, TRUE, FALSE, NoLocations),
      Group(NameWorkerBig, "cx31", None, 1, FALSE, TRUE, FALSE, NoLocations)>>

\* the groups dicts a HostTimeAssigner is built for
SlotNodes ==
    {<<GroupAUb(n)>> : n \in 0..MaxNum}
    \cup {<<GroupAUc(n[1]), GroupW(n[2])>> : n \in (0..MaxNum) \X (0..MaxNum)}
    \cup {ExampleNodes}

\* the windows: of a few minutes, of an hour, empty, reversed, rejected by strptime
SlotWindows ==
    {<<GoodStart, <<2, m>>>> : m \in 0..(2 * MaxNum)}
    \cup {<<GoodStart, GoodEnd>>, <<GoodEnd, GoodStart>>, <<GoodStart, <<24, 0>>>>}

\* HostTimeAssigner(groups, start_time_str, end_time_str), with the groups dict
\* and the times taken from a configuration as _init_host_time_assigner does
InitSlots ==
    /\ \E nodes \in SlotNodes : \E w \in SlotWindows :
          config = Config(nodes, w[1], w[2], 3, <<>>)
    /\ time_assigner = HostTimeAssignerNew(GroupOrder(config), GroupCounts(config),
                                           config.start_time, config.end_time)
    /\ cloud = Account(<<>>, <<>>)
    /\ pc = "allocator"
    /\ err = NoErr
    /\ pass = 1
    /\ cloud_calls = 0
    /\ hcloud_servers = <<>>
    /\ hcloud_volumes = <<>>
    /\ servers_configured = <<>>
    /\ volumes_configured = <<>>
    /\ network_manager = NoNetworkManager
    /\ location_manager = NoLocationManager
    /\ cur_group = 0
    /\ cur_host = 0
    /\ inventory = EmptyInventory
    /\ draws = <<>>
    /\ first_out = [inventory |-> EmptyInventory, pc |-> "none", err |-> NoErr]
    /\ calls = [returned |-> [g \in Range(GroupOrder(config)) |-> <<>>],
                last |-> [op |-> "none", group |-> NameUnknown, ok |-> TRUE, slots |-> <<>>]]

\* the variables the calls on a HostTimeAssigner leave alone
SlotRest == <<config, cloud, pc, err, pass, cloud_calls, hcloud_servers, hcloud_volumes,
              servers_configured, volumes_configured, network_manager, location_manager,
              cur_group, cur_host, inventory, draws, first_out>>

\* a call of get_next_slot, for a group of the dict or another name
SlotNext ==
    /\ time_assigner.status = "ok"
    /\ \E g \in Range(GroupOrder(config)) \cup {NameUnknown} :
          LET r == GetNextSlot(time_assigner, g)
          IN  /\ time_assigner' = r.hta
              /\ calls' = [returned |-> IF r.ok THEN [calls.returned EXCEPT ![g] = Append(@, r.slot)]
                                        ELSE calls.returned,
                           last |-> [op |-> "next", group |-> g, ok |-> r.ok,
                                     slots |-> IF r.ok THEN <<r.slot>> ELSE <<>>]]
    /\ UNCHANGED SlotRest

\* a call of get_all_slots
SlotAll ==
    /\ time_assigner.status = "ok"
    /\ \E g \in Range(GroupOrder(config)) \cup {NameUnknown} :
          LET r == GetAllSlots(time_assigner, g)
          IN  calls' = [returned |-> calls.returned,
                        last |-> [op |-> "all", group |-> g, ok |-> r.ok, slots |-> r.slots]]
    /\ UNCHANGED <<SlotRest, time_assigner>>

NextSlots ==
    \/ SlotNext
    \/ SlotAll

\* the construction of a HostTimeAssigner and any sequence of calls on it
SpecSlots == InitSlots /\ [][NextSlots]_vars

\* the constructor returned an assigner
SlotsBuilt == pc = "allocator" /\ time_assigner.status = "ok"

\* the slots the groups were given, in minutes after midnight
GivenSlots ==
    UNION {Range(time_assigner.group_slots[g]) : g \in DOMAIN time_assigner.group_slots}

\* C22: for n >= 2 hosts and a window of W minutes that passed construction
\* the slots are start + i * floor(W / (n - 1)) for i = 0..n-1: pairwise
\* distinct, strictly ascending, the first at the start time and none after the
\* end time; for n = 1 the only slot is the start time.
C22_SlotArithmetic ==
    SlotsBuilt =>
        LET n == TotalHosts
            start == ParseTime(config.start_time)
            end == ParseTime(config.end_time)
            slot(i) == start + i * (WindowMinutes \div (n - 1))
        IN  IF n = 1 THEN GivenSlots = {start}
            ELSE /\ GivenSlots = {slot(i) : i \in 0..(n - 1)}
                 /\ Cardinality(GivenSlots) = n
                 /\ \A i, j \in 0..(n - 1) : i < j => slot(i) < slot(j)
                 /\ start \in GivenSlots
                 /\ \A s \in GivenSlots : start <= s /\ s <= end

\* three hosts in a window of five minutes: the last slot is before the end
C22_Witness ==
    /\ SlotsBuilt
    /\ TotalHosts = 3
    /\ WindowMinutes = 5
    /\ GivenSlots = {120, 122, 124}

\* the groups that still have a host in round r of the walk, in declared order
RoundOf(r) ==
    LET more(g) == GroupCounts(config)[g] >= r
    IN  SelectSeq(GroupOrder(config), more)

\* the round-robin walk from round r on: round after round, each group leaving
\* the walk after as many rounds as it has hosts
RECURSIVE WalkFrom(_)
WalkFrom(r) == IF RoundOf(r) = <<>> THEN <<>> ELSE RoundOf(r) \o WalkFrom(r + 1)

\* the k-th slot of the ascending slot list, in minutes after midnight
SlotAt(k) ==
    IF TotalHosts = 1 THEN ParseTime(config.start_time)
    ELSE ParseTime(config.start_time) + (k - 1) * (WindowMinutes \div (TotalHosts - 1))

\* the queue of a group as get_all_slots shows it
QueueOf(g) == GetAllSlots(time_assigner, g).slots

\* C23: construction gives each group as many slots as it has hosts, the
\* queues partition the ascending slot list, each queue is ascending, and the
\* k-th slot goes to the group at position k of the round-robin walk; for
\* {control: 3, worker_small: 2, worker_big: 1} over 02:00-03:00 control gets
\* 02:00, 02:36, 03:00, worker_small 02:12, 02:48 and worker_big 02:24.
C23_RoundRobinQueues ==
    SlotsBuilt =>
        LET queue == time_assigner.group_slots
            groups == Range(GroupOrder(config))
            walk == WalkFrom(1)
        IN  /\ DOMAIN queue = groups
            /\ \A g \in groups :
                  /\ Len(queue[g]) = GroupCounts(config)[g]
                  /\ \A i, j \in 1..Len(queue[g]) : i < j => queue[g][i] < queue[g][j]
            /\ \A g, h \in groups : g # h => Range(queue[g]) \cap Range(queue[h]) = {}
            /\ GivenSlots = {SlotAt(k) : k \in 1..TotalHosts}
            /\ Len(walk) = TotalHosts
            /\ \A k \in 1..TotalHosts : SlotAt(k) \in Range(queue[walk[k]])
            /\ (config.nodes = ExampleNodes /\ config.start_time = <<2, 0>>
                    /\ config.end_time = <<3, 0>>)
                  => /\ QueueOf(NameControl) = <<<<2, 0>>, <<2, 36>>, <<3, 0>>>>
                     /\ QueueOf(NameWorkerSmall) = <<<<2, 12>>, <<2, 48>>>>
                     /\ QueueOf(NameWorkerBig) = <<<<2, 24>>>>

\* the example of the docstring built: the walk is control, worker_small,
\* worker_big, control, worker_small, control
C23_Witness ==
    /\ SlotsBuilt
    /\ config.nodes = ExampleNodes
    /\ WindowMinutes = 60
    /\ WalkFrom(1) = <<NameControl, NameWorkerSmall, NameWorkerBig,
                       NameControl, NameWorkerSmall, NameControl>>
    /\ time_assigner.group_slots[NameControl] = <<120, 156, 180>>

\* start and end are both times strptime accepts
TimesParse == ValidTime(config.start_time) /\ ValidTime(config.end_time)

\* C24: construction fails when the host counts sum to zero, when the end is
\* not after the start, or when the window has fewer minutes than hosts; it
\* succeeds when the window has exactly as many minutes as hosts; and every
\* successful construction gives distinct minutes.
C24_ConstructionOutcome ==
    (pc = "allocator" /\ TimesParse) =>
        /\ (TotalHosts = 0 \/ WindowMinutes <= 0 \/ WindowMinutes < TotalHosts)
              => time_assigner.status = "error"
        /\ (TotalHosts > 0 /\ WindowMinutes = TotalHosts) => time_assigner.status = "ok"
        /\ time_assigner.status = "ok" => Cardinality(GivenSlots) = TotalHosts

\* the same for groups dicts without a count of zero
C24_OutcomePositiveCounts ==
    (\A i \in 1..Len(config.nodes) : GroupNum(config.nodes[i]) > 0) => C24_ConstructionOutcome

\* the whole list of a group, formatted as the calls return it
FullQueue(g) ==
    [i \in 1..Len(time_assigner.group_slots[g]) |-> FormatTime(time_assigner.group_slots[g][i])]

\* what get_next_slot has returned for each group so far is the front of the
\* group's list, and the last call answered as the lists and indices say
SlotCallsInOrder ==
    SlotsBuilt =>
        LET groups == Range(GroupOrder(config))
            last == calls.last
        IN  /\ \A g \in groups :
                  calls.returned[g] = SubSeq(FullQueue(g), 1, Len(calls.returned[g]))
            /\ last.op = "all" =>
                  /\ last.ok <=> last.group \in groups
                  /\ last.ok => last.slots = FullQueue(last.group)
            /\ (last.op = "next" /\ last.group \notin groups) => ~last.ok

\* a call of get_next_slot fails exactly for an unknown group or a used-up
\* list and then changes nothing; a successful one returns the entry after
\* those returned before; get_all_slots changes nothing
SlotCallEffect ==
    LET groups == Range(GroupOrder(config))
        last == calls'.last
        g == last.group
    IN  /\ (last.op = "next" /\ calls' # calls) =>
              /\ ~last.ok <=> (g \notin groups \/ Len(calls.returned[g]) = Len(FullQueue(g)))
              /\ ~last.ok => time_assigner' = time_assigner /\ calls'.returned = calls.returned
              /\ last.ok =>
                    /\ last.slots = <<FullQueue(g)[Len(calls.returned[g]) + 1]>>
                    /\ \A h \in groups \ {g} : calls'.returned[h] = calls.returned[h]
        /\ (last.op = "all" /\ calls' # calls) =>
              time_assigner' = time_assigner /\ calls'.returned = calls.returned

\* C25: successive get_next_slot calls on a group return its list in order,
\* each entry once, whatever is called on other groups; the call after the
\* last entry fails and consumes nothing; get_all_slots returns the whole list
\* however much was consumed and consumes nothing; both fail on an unknown group.
C25_SlotCalls == []SlotCallsInOrder /\ [][SlotCallEffect]_vars

\* a group of two hosts got both slots, between them another group got one,
\* and a third call for the first group has just failed
C25_Witness ==
    /\ SlotsBuilt
    /\ \E g, h \in Range(GroupOrder(config)) :
          /\ g # h
          /\ Len(calls.returned[g]) = 2
          /\ calls.returned[g] = FullQueue(g)
          /\ Len(calls.returned[h]) >= 1
          /\ calls.last = [op |-> "next", group |-> g, ok |-> FALSE, slots |-> <<>>]

\* get_all_slots after a slot was consumed still shows the whole list
C25_WitnessAll ==
    /\ SlotsBuilt
    /\ calls.last.op = "all" /\ calls.last.ok
    /\ Len(calls.returned[calls.last.group]) >= 1
    /\ calls.last.slots = FullQueue(calls.last.group)

\* C26: construction terminates for every groups dict of non-negative counts
\* with a positive total, also when some group has count zero; such a group
\* gets no entry of the walk and ends with an empty list.
C26_ZeroCountTerminates ==
    (pc = "allocator" /\ TotalHosts > 0) =>
        /\ time_assigner.status # "hang"
        /\ time_assigner.status = "ok" =>
              \A g \in Range(GroupOrder(config)) :
                  GroupCounts(config)[g] = 0 => time_assigner.group_slots[g] = <<>>

----------------------------------------------------------------------------
(* Passes on other inputs before a pass *)

\* the configurations a plugin instance is given one after the other: with and
\* without the group w, with and without volumes, without the API token
CarryConfigs ==
    {SoundConfig,
     [SoundConfig EXCEPT !.nodes = <<GroupAUb(1)>>],
     [SoundConfig EXCEPT !.volumes = <<>>],
     [SoundConfig EXCEPT !.token = FALSE]}

\* the servers of the first hosts of a_b and of w, labelled as SoundConfig wants them
CarryServers ==
    <<ServerLike(Hostname(NameAU, 1), "true", "false", 1, "fsn1", "v4"),
      ServerLike(Hostname(NameW, 1), "false", "true", 2, "nbg1", "v4")>>

\* their volumes d
CarryVolumes ==
    <<[id |-> 0, name |-> ExpectedVolumeName(Hostname(NameAU, 1), VolumeD), size |-> 2],
      [id |-> 0, name |-> ExpectedVolumeName(Hostname(NameW, 1), VolumeD), size |-> 2]>>

\* the accounts: empty, with both servers and volumes, with those of a_b only;
\* a server or volume has the same id in every account it is in
CarryAccounts ==
    {Account(<<>>, <<>>),
     Account(CarryServers, CarryVolumes),
     Account(<<CarryServers[1]>>, <<CarryVolumes[1]>>)}

CarryInputs == {[config |-> c, cloud |-> a] : c \in CarryConfigs, a \in CarryAccounts}

\* a fresh instance about to run its first pass
InitCarry ==
    /\ \E input \in CarryInputs : config = input.config /\ cloud = input.cloud
    /\ pc = "validate_structure"
    /\ err = NoErr
    /\ pass = 1
    /\ cloud_calls = 0
    /\ hcloud_servers = <<>>
    /\ hcloud_volumes = <<>>
    /\ servers_configured = <<>>
    /\ volumes_configured = <<>>
    /\ time_assigner = NoTimeAssigner
    /\ network_manager = NoNetworkManager
    /\ location_manager = NoLocationManager
    /\ cur_group = 0
    /\ cur_host = 0
    /\ inventory = EmptyInventory
    /\ draws = <<>>
    /\ first_out = [inventory |-> EmptyInventory, pc |-> "none", err |-> NoErr,
                    config |-> config, cloud |-> cloud]
    /\ calls = <<>>

\* the pass of the fresh instance is over and its result kept for comparison;
\* another instance is constructed (__init__) and its parse() reads another
\* configuration, with another account behind the API
ParseOther ==
    /\ pass = 1
    /\ pc \in {"done", "failed"}
    /\ first_out' = [inventory |-> inventory, pc |-> pc, err |-> err,
                     config |-> config, cloud |-> cloud]
    /\ \E input \in CarryInputs :
          /\ input # [config |-> config, cloud |-> cloud]
          /\ config' = input.config
          /\ cloud' = input.cloud
    /\ pass' = 2
    /\ pc' = "validate_structure"
    /\ err' = NoErr
    /\ cloud_calls' = 0
    /\ hcloud_servers' = <<>>
    /\ hcloud_volumes' = <<>>
    /\ servers_configured' = <<>>
    /\ volumes_configured' = <<>>
    /\ time_assigner' = NoTimeAssigner
    /\ network_manager' = NoNetworkManager
    /\ location_manager' = NoLocationManager
    /\ cur_group' = 0
    /\ cur_host' = 0
    /\ inventory' = EmptyInventory
    /\ draws' = <<>>
    /\ UNCHANGED calls

\* parse() once more on that second instance, now with the configuration and
\* the account of the very first pass and a fresh InventoryData: the attributes
\* of the instance keep their values until parse() assigns them again
ParseAgain ==
    /\ pass = 2
    /\ pc \in {"done", "failed"}
    /\ config' = first_out.config
    /\ cloud' = first_out.cloud
    /\ pass' = 3
    /\ pc' = "validate_structure"
    /\ err' = NoErr
    /\ inventory' = EmptyInventory
    /\ draws' = <<>>
    /\ UNCHANGED <<cloud_calls, hcloud_servers, hcloud_volumes, servers_configured,
                   volumes_configured, time_assigner, network_manager, location_manager,
                   cur_group, cur_host, first_out, calls>>

\* a pass on a fresh instance, then on a second instance a pass on other inputs
\* followed by a pass on the inputs of the first
SpecCarry == InitCarry /\ [][Next \/ ParseOther \/ ParseAgain]_vars

\* C27: nothing carries over between passes: a pass on an instance that has
\* already completed a pass on another configuration or account ends as the
\* same pass on a fresh instance does, with the same inventory, so with the same
\* unmanaged servers and orphan volumes.
C27_NothingCarriedOver ==
    (pass = 3 /\ pc \in {"done", "failed"}) =>
        /\ pc = first_out.pc
        /\ err = first_out.err
        /\ inventory = first_out.inventory

----------------------------------------------------------------------------
(* More properties of the pass *)

\* the pass is at the hosts or behind them
HostsBegun == pc \in {"prepare_group", "add_host", "orphans", "clean", "set_user", "done"}

\* C28: an address drawn for a new host is never the address recorded on a
\* server of the snapshot, be the server unmanaged in the end or matched to a
\* host that comes later in the pass: every recorded address is reserved before
\* the first host is processed.
C28_RecordedAddressesReserved ==
    /\ HostsBegun => RecordedAddresses \ {NoIP} \subseteq network_manager.assigned
    /\ \A i \in 1..Len(inventory.hosts) :
          inventory.hosts[i].create => inventory.hosts[i].internal_ip \notin RecordedAddresses

\* a new host got the third address because the first is recorded on a server
\* nobody claims and the second on the server of the host after it
C28_Witness ==
    /\ pc = "done"
    /\ Len(inventory.hosts) >= 2
    /\ inventory.hosts[1].create /\ inventory.hosts[1].internal_ip = 3
    /\ ~inventory.hosts[2].create /\ inventory.hosts[2].internal_ip = 2
    /\ inventory.unmanaged # <<>>
    /\ RecordedAddresses = {1, 2}

----------------------------------------------------------------------------
(* A pass after the plan of a pass was carried out *)

\* the record that holds the variables of a host name in the sink: the last
\* one written under the name
LastRecord(hosts, name) ==
    hosts[CHOOSE i \in 1..Len(hosts) :
             /\ hosts[i].hostname = name
             /\ \A j \in (i + 1)..Len(hosts) : hosts[j].hostname # name]

\* "true" or "false", as the labels of a server have it
Label(b) == IF b THEN "true" ELSE "false"

\* the server made for a host of the plan: it carries the host's name, the
\* image and type of its group, its memberships of controlplane and worker, its
\* internal_ip and its location, and has a public address
CreatedServer(inv, name) ==
    LET h == LastRecord(inv.hosts, name)
        g == inv.groups[CHOOSE k \in 1..Len(inv.groups) : inv.groups[k].name = h.group]
        same == {i \in 1..Len(inv.hosts) : inv.hosts[i].hostname = name}
    IN  Server(name, g.image, g.type,
               Label(\E i \in same : inv.hosts[i].controlplane),
               Label(\E i \in same : inv.hosts[i].worker),
               h.internal_ip, h.location, "v4")

\* the servers made for the hosts with create true, in the order of the plan
RECURSIVE CreatedServers(_, _)
CreatedServers(inv, i) ==
    IF i > Len(inv.hosts) THEN <<>>
    ELSE LET name == inv.hosts[i].hostname
             last == \A j \in (i + 1)..Len(inv.hosts) : inv.hosts[j].hostname # name
         IN  (IF last /\ inv.hosts[i].create THEN <<CreatedServer(inv, name)>> ELSE <<>>)
             \o CreatedServers(inv, i + 1)

\* the pass is complete and its plan is carried out: the account holds the
\* servers it had and the created ones; then a fresh instance starts a pass on
\* the same configuration
ApplyPlan ==
    /\ pass = 1
    /\ pc = "done"
    /\ LET servers == cloud.servers \o CreatedServers(inventory, 1)
       IN  /\ UniqueNames(servers)
           /\ cloud' = [cloud EXCEPT !.servers = WithIds(servers)]
    /\ first_out' = [inventory |-> inventory, pc |-> pc, err |-> err]
    /\ pass' = 2
    /\ pc' = "validate_structure"
    /\ err' = NoErr
    /\ cloud_calls' = 0
    /\ hcloud_servers' = <<>>
    /\ hcloud_volumes' = <<>>
    /\ servers_configured' = <<>>
    /\ volumes_configured' = <<>>
    /\ time_assigner' = NoTimeAssigner
    /\ network_manager' = NoNetworkManager
    /\ location_manager' = NoLocationManager
    /\ cur_group' = 0
    /\ cur_host' = 0
    /\ inventory' = EmptyInventory
    /\ draws' = <<>>
    /\ UNCHANGED <<config, calls>>

\* the passes whose plans are carried out
InitApplied ==
    /\ \E input \in MatchingInputs \cup VolumeInputs :
          config = input.config /\ cloud = input.cloud
    /\ pc = "validate_structure"
    /\ err = NoErr
    /\ pass = 1
    /\ cloud_calls = 0
    /\ hcloud_servers = <<>>
    /\ hcloud_volumes = <<>>
    /\ servers_configured = <<>>
    /\ volumes_configured = <<>>
    /\ time_assigner = NoTimeAssigner
    /\ network_manager = NoNetworkManager
    /\ location_manager = NoLocationManager
    /\ cur_group = 0
    /\ cur_host = 0
    /\ inventory = EmptyInventory
    /\ draws = <<>>
    /\ first_out = [inventory |-> EmptyInventory, pc |-> "none", err |-> NoErr]
    /\ calls = <<>>

\* a pass, the plan carried out, and a pass on the result
SpecApplied == InitApplied /\ [][Next \/ ApplyPlan]_vars

\* the second pass has every host of the first, as found and with the address,
\* location and slot the first pass gave it
SamePlanAllFound ==
    /\ pc = "done"
    /\ Len(inventory.hosts) = Len(first_out.inventory.hosts)
    /\ \A i \in 1..Len(inventory.hosts) :
          LET name == inventory.hosts[i].hostname
              h == LastRecord(inventory.hosts, name)
              f == LastRecord(first_out.inventory.hosts, name)
          IN  /\ first_out.inventory.hosts[i].hostname = name
              /\ ~h.create
              /\ h.internal_ip = f.internal_ip
              /\ h.location = f.location
              /\ h.upgrade_time = f.upgrade_time

\* C29: the plan is a fixed point once carried out: when every host emitted
\* with create true exists as a server with the emitted name, image, type, role
\* flags, address and location, a second pass on the same configuration has
\* every host with create false and the address, location and slot of the first.
C29_AppliedPlanIsFixedPoint ==
    (pass = 2 /\ pc \in {"done", "failed", "hung"}) => SamePlanAllFound

\* no two hosts of the first pass have one name
NamesApart ==
    \A i, j \in 1..Len(first_out.inventory.hosts) :
        i # j => first_out.inventory.hosts[i].hostname # first_out.inventory.hosts[j].hostname

\* the same for configurations whose hosts have different names
C29_FixedPointNamesApart ==
    (pass = 2 /\ pc \in {"done", "failed", "hung"} /\ NamesApart) => SamePlanAllFound

\* the locations group gi may use
CandidatesOf(g) == Range(GroupLocations(g))

\* the location recorded on the server the i-th host processed has found
FoundLocation(i) == hcloud_servers[draws[i].found].location

\* C30: when the server matched to a host records no location, or one that is
\* not in the list of the host's group, the pass aborts at that host and no
\* record is written for it; the counters are those of the group being
\* processed, so a recorded location is counted only against that group's list.
C30_UnknownLocationAborts ==
    /\ \A i \in 1..Len(draws) :
          draws[i].found # 0 =>
              IF FoundLocation(i) \in CandidatesOf(DrawGroup(i))
              THEN /\ i = Len(draws) => err # "location"
                   /\ i <= Len(inventory.hosts) => inventory.hosts[i].location = FoundLocation(i)
              ELSE /\ pc = "failed" /\ err = "location"
                   /\ i = Len(draws)
                   /\ Len(inventory.hosts) = i - 1
    /\ err = "location" =>
          /\ draws # <<>>
          /\ draws[Len(draws)].found # 0
          /\ FoundLocation(Len(draws)) \notin CandidatesOf(DrawGroup(Len(draws)))
    /\ \A i \in 1..Len(inventory.hosts) :
          inventory.hosts[i].location \in CandidatesOf(DrawGroup(i))
    /\ pc = "add_host" =>
          LET g == config.nodes[cur_group]
          IN  /\ location_manager.values = GroupLocations(g)
              /\ \A v \in CandidatesOf(g) :
                    location_manager.counts[v] =
                        Cardinality({i \in 1..Len(inventory.hosts) :
                                        /\ inventory.hosts[i].group = g.name
                                        /\ inventory.hosts[i].location = v})

\* the pass stopped at a host whose server records no location
C30_Witness ==
    /\ pc = "failed" /\ err = "location"
    /\ draws[Len(draws)].found # 0
    /\ FoundLocation(Len(draws)) = None
    /\ Len(inventory.hosts) = Len(draws) - 1

\* the pass stopped at a host whose server records a location that another
\* group would take
C30_WitnessOtherGroup ==
    /\ pc = "failed" /\ err = "location"
    /\ FoundLocation(Len(draws)) = "hel1"
    /\ "hel1" \in Range(DefaultLocations)

====
